---------------------------- MODULE Spec2Model ----------------------------
(***************************************************************************)
(* A model of the transactional storage core of DatabaseProject:           *)
(*   - RWMutex            (src/src/include/common/rwmutex.h)               *)
(*   - LockManager        (src/src/include/concurrency/lock_manager.h,     *)
(*                         src/unnamed/part_000 = lock_manager.cpp)        *)
(*   - TransactionManager (src/unnamed/part_001 = transaction_manager.cpp) *)
(*   - BPlusTree, leaf page, LogRecovery (src/unnamed/part_002)            *)
(* Each component has its own specification over a shared variable tuple;  *)
(* a specification leaves the variables of the other components unchanged. *)
(***************************************************************************)
EXTENDS Integers, Sequences, FiniteSets, TLC

(***************************************************************************)
(* Bounds of the model.                                                    *)
(***************************************************************************)
\* number of threads using one RWMutex
NumThreads == 3
\* number of transactions TransactionManager::Begin may create
MaxTxn == 3
\* number of distinct RIDs the transactions lock
NumRids == 2
\* number of write-set entries a transaction may record
MaxWrites == 1
\* number of write-set entries of the transaction whose rollback is followed tuple by tuple
MaxUndo == 3
\* number of distinct tuple contents
NumVals == 2
\* number of frames of the buffer pool that may hold pages of the B+ tree
MaxPages == 14
\* number of distinct keys given to the B+ tree
NumKeys == 6
\* number of distinct RIDs stored in the B+ tree
NumTreeRids == 2
\* the keys up to this one are inserted with any RID, a greater key with one RID
NumFreeRidKeys == 1
\* number of threads working on the B+ tree
NumWorkers == 2
\* number of free frames an Insert needs to be sure of: one per level and a new root
MaxNewPages == 4
\* number of records of the log file that recovery reads
MaxLog == 5
\* number of transactions that wrote the log
MaxLogTxn == 2
\* size of the log buffer of recovery, in units of the size of a record's header
LOG_BUFFER_SIZE == 4

Threads == 1..NumThreads
TxnIds == 1..MaxTxn
Rids == 1..NumRids

\* rwmutex.h:20  static const uint32_t max_readers_ = UINT_MAX.  TLC's integers are 32-bit
\* signed, so the largest of them stands for UINT_MAX; reader_count_ never exceeds the
\* number of threads, so neither value is reached.
max_readers_ == 2147483647

VARIABLES
    \* ---- RWMutex ----
    rw_pc,            \* per thread: where the thread is in WLock/RLock or what it holds
    reader_count_,    \* rwmutex.h:75
    writer_entered_,  \* rwmutex.h:76
    notified,         \* threads blocked in cond.wait() that were woken and must re-test their loop
    \* ---- LockManager / TransactionManager ----
    strict_2PL_,      \* lock_manager.h:118
    enable_logging,   \* the process-wide ENABLE_LOGGING switch read by part_001
    lockTable_,       \* lock_manager.h:120  RID -> TxList (locks_, hasUpgrading_)
    next_txn_id_,     \* TransactionManager::next_txn_id_ (part_001:14)
    state,            \* Transaction::state_ per transaction
    sharedSet,        \* Transaction::GetSharedLockSet()
    exclSet,          \* Transaction::GetExclusiveLockSet()
    writeSet,         \* Transaction::GetWriteSet(), a sequence of [wtype, rid]
    lastLog,          \* type of the record Transaction::prev_lsn_ points at
    flushed,          \* Flush(false) has returned after the transaction's COMMIT/ABORT record
    pc,               \* per transaction: position of its caller thread
    req,              \* per transaction: the lock request it is blocked in (TxItem::Wait)
    lock_set,         \* per transaction: the local lock_set of Commit/Abort (part_001:56, 106)
    \* ---- one transaction's writes and their rollback in Abort ----
    table_,           \* the table heap the write records point at: RID -> slot content
    begin_table,      \* the table heap as it was when the transaction began
    write_set,        \* Transaction::GetWriteSet() with the records' tuple_ (part_001:72)
    undone,           \* the records Abort has rolled back so far, in the order it took them
    undo_pc,          \* position of the transaction: "running", "rollback", "aborted"
    \* ---- B+ tree ----
    pages,            \* the buffer pool's frames: page id -> B+ tree page
    root_page_id_,    \* BPlusTree::root_page_id_
    pin_count_,       \* Page::pin_count_ per page
    wlatch,           \* Page::rwlatch_ per page: the thread that holds it in write mode, or 0
    rlatch,           \* Page::rwlatch_ per page: the threads that hold it in read mode
    mutex_w,          \* BPlusTree::mutex_ (tree-root latch): its writer, or 0
    mutex_r,          \* BPlusTree::mutex_: its readers
    wk,               \* per worker thread: position, arguments, locals, the transaction's
                      \* page set (ps) and deleted-page set (ds), rootLockedCnt (cnt)
    leaf_max_size,    \* max_size of a leaf page (part_002:1069)
    internal_max_size,\* max_size of an internal page
    calls_left,       \* per worker thread: calls it may still begin (negative: no limit)
    ref_map,          \* the reference map: key -> RID, NoRid when absent
    header_record,    \* the header page's root id for index_name_, NoRecord when it has none
    \* ---- LogRecovery ----
    log_file,         \* the records of the log file, in the order of their LSNs
    tpage,            \* the tuples of the table page, slot by slot
    page_lsn,         \* TablePage::GetLSN of the table page
    active_txn_,      \* LogRecovery::active_txn_: txn_id -> lsn
    lsn_mapping_,     \* LogRecovery::lsn_mapping_: lsn -> offset in the log file
    rc                \* where recovery is, and the locals of Redo and Undo

rwVars == <<rw_pc, reader_count_, writer_entered_, notified>>
lmVars == <<strict_2PL_, enable_logging, lockTable_, next_txn_id_, state, sharedSet,
            exclSet, writeSet, lastLog, flushed, pc, req, lock_set>>
undoVars == <<table_, begin_table, write_set, undone, undo_pc>>
btVars == <<pages, root_page_id_, pin_count_, wlatch, rlatch, mutex_w, mutex_r, wk,
            leaf_max_size, internal_max_size, calls_left, ref_map, header_record>>
rcVars == <<log_file, tpage, page_lsn, active_txn_, lsn_mapping_, rc>>
vars == <<rwVars, lmVars, undoVars, btVars, rcVars>>

\* what the actions of one component leave unchanged: the other components' variables
notRW == <<lmVars, undoVars, btVars, rcVars>>
notLM == <<rwVars, undoVars, btVars, rcVars>>
notUndo == <<rwVars, lmVars, btVars, rcVars>>
notBT == <<rwVars, lmVars, undoVars, rcVars>>
notRC == <<rwVars, lmVars, undoVars, btVars>>

-----------------------------------------------------------------------------
(***************************************************************************)
(* RWMutex.  mutex_ serialises the bodies of the four methods; a thread    *)
(* gives it up only inside cond.wait().  Every action below is one         *)
(* critical section: from acquiring mutex_ (on entry or on wake-up) to     *)
(* releasing it (on return or on the next wait).                           *)
(* rw_pc: "idle"    not inside the latch                                   *)
(*        "W_wait1" WLock, blocked in reader_.wait (line 34)               *)
(*        "W_wait2" WLock, blocked in writer_.wait (line 37)               *)
(*        "writing" WLock has returned, WUnlock not yet called             *)
(*        "R_wait"  RLock, blocked in reader_.wait (line 51)               *)
(*        "reading" RLock has returned, RUnlock not yet called             *)
(***************************************************************************)
OnReaderCv == {t \in Threads : rw_pc[t] \in {"W_wait1", "R_wait"}}
OnWriterCv == {t \in Threads : rw_pc[t] = "W_wait2"}

\* a WLock that returns without waiting for the readers to drain
WLockDrainNoWait(t) ==
    /\ rw_pc' = [rw_pc EXCEPT ![t] = "writing"]

\* WLock lines 36-37: the loop that waits for the readers to drain
WLockDrain(t) ==
    IF reader_count_ > 0
    THEN rw_pc' = [rw_pc EXCEPT ![t] = "W_wait2"]
    ELSE rw_pc' = [rw_pc EXCEPT ![t] = "writing"]

\* WLock lines 32-37, from the call to the first wait or the return
WLock(t) ==
    /\ UNCHANGED notRW
    /\ rw_pc[t] = "idle"
    /\ IF writer_entered_
       THEN /\ rw_pc' = [rw_pc EXCEPT ![t] = "W_wait1"]
            /\ UNCHANGED writer_entered_
       ELSE /\ writer_entered_' = TRUE
            /\ WLockDrain(t)
    /\ UNCHANGED <<reader_count_, notified>>

\* WLock line 33-35 after a wake-up from reader_.wait
WLockWake1(t) ==
    /\ UNCHANGED notRW
    /\ rw_pc[t] = "W_wait1"
    /\ t \in notified
    /\ notified' = notified \ {t}
    /\ IF writer_entered_
       THEN UNCHANGED <<rw_pc, writer_entered_>>
       ELSE /\ writer_entered_' = TRUE
            /\ WLockDrain(t)
    /\ UNCHANGED reader_count_

\* WLock line 36-37 after a wake-up from writer_.wait
WLockWake2(t) ==
    /\ UNCHANGED notRW
    /\ rw_pc[t] = "W_wait2"
    /\ t \in notified
    /\ notified' = notified \ {t}
    /\ WLockDrain(t)
    /\ UNCHANGED <<reader_count_, writer_entered_>>

\* a WUnlock that wakes nobody
WUnlockNoNotify(t) ==
    /\ UNCHANGED notRW
    /\ rw_pc[t] = "writing"
    /\ writer_entered_' = FALSE
    /\ rw_pc' = [rw_pc EXCEPT ![t] = "idle"]
    /\ UNCHANGED <<reader_count_, notified>>

\* WUnlock lines 40-45
WUnlock(t) ==
    /\ UNCHANGED notRW
    /\ rw_pc[t] = "writing"
    /\ writer_entered_' = FALSE
    /\ notified' = notified \cup OnReaderCv          \* reader_.notify_all()
    /\ rw_pc' = [rw_pc EXCEPT ![t] = "idle"]
    /\ UNCHANGED reader_count_

\* a wait loop of RLock that does not look at writer_entered_
RLockMustWaitNoWriter == reader_count_ = max_readers_

\* RLock line 50: the condition of the wait loop
RLockMustWait == writer_entered_ \/ reader_count_ = max_readers_

\* RLock lines 47-53, from the call to the wait or the return
RLock(t) ==
    /\ UNCHANGED notRW
    /\ rw_pc[t] = "idle"
    /\ IF RLockMustWait
       THEN /\ rw_pc' = [rw_pc EXCEPT ![t] = "R_wait"]
            /\ UNCHANGED reader_count_
       ELSE /\ reader_count_' = reader_count_ + 1
            /\ rw_pc' = [rw_pc EXCEPT ![t] = "reading"]
    /\ UNCHANGED <<writer_entered_, notified>>

\* RLock lines 50-52 after a wake-up from reader_.wait
RLockWake(t) ==
    /\ UNCHANGED notRW
    /\ rw_pc[t] = "R_wait"
    /\ t \in notified
    /\ notified' = notified \ {t}
    /\ IF RLockMustWait
       THEN UNCHANGED <<rw_pc, reader_count_>>
       ELSE /\ reader_count_' = reader_count_ + 1
            /\ rw_pc' = [rw_pc EXCEPT ![t] = "reading"]
    /\ UNCHANGED writer_entered_

\* RUnlock lines 55-69
RUnlock(t) ==
    /\ UNCHANGED notRW
    /\ rw_pc[t] = "reading"
    /\ reader_count_' = reader_count_ - 1
    /\ rw_pc' = [rw_pc EXCEPT ![t] = "idle"]
    /\ IF writer_entered_
       THEN IF reader_count_' = 0 /\ OnWriterCv # {}
            THEN \E w \in OnWriterCv : notified' = notified \cup {w}   \* writer_.notify_one()
            ELSE UNCHANGED notified
       ELSE IF reader_count_' = max_readers_ - 1 /\ OnReaderCv # {}
            THEN \E r \in OnReaderCv : notified' = notified \cup {r}   \* reader_.notify_one()
            ELSE UNCHANGED notified
    /\ UNCHANGED writer_entered_

\* std::condition_variable::wait may return spuriously
SpuriousWake(t) ==
    /\ UNCHANGED notRW
    /\ t \in (OnReaderCv \cup OnWriterCv) \ notified
    /\ notified' = notified \cup {t}
    /\ UNCHANGED <<rw_pc, reader_count_, writer_entered_>>

InitRW ==
    /\ rw_pc = [t \in Threads |-> "idle"]
    /\ reader_count_ = 0           \* rwmutex.h:23
    /\ writer_entered_ = FALSE     \* rwmutex.h:23
    /\ notified = {}

NextRWMutex ==
    \E t \in Threads :
        \/ WLock(t)
        \/ WLockWake1(t)
        \/ WLockWake2(t)
        \/ WUnlock(t)
        \/ RLock(t)
        \/ RLockWake(t)
        \/ RUnlock(t)
        \/ SpuriousWake(t)

-----------------------------------------------------------------------------
(***************************************************************************)
(* LockManager.  A TxItem is [tid, mode, granted]; a TxList is             *)
(* [locks, hasUpgrading].  lockTable_[rid] of a RID that is not a key of   *)
(* the unordered_map is the value-initialised TxList operator[] creates.   *)
(* A lockTemplate/Unlock body runs under the TxList's mutex_, so it is one *)
(* action; a request that is not granted leaves the mutex in               *)
(* TxList::insert and blocks in TxItem::Wait (pc = "blocked").             *)
(***************************************************************************)
EmptyTxList == [locks |-> <<>>, hasUpgrading |-> FALSE]

TxItem(tid, mode, granted) == [tid |-> tid, mode |-> mode, granted |-> granted]

\* std::find_if over locks_ for the item of transaction t: its index, 0 for end()
FindTid(locks, t) ==
    IF \E i \in 1..Len(locks) : locks[i].tid = t
    THEN CHOOSE i \in 1..Len(locks) :
            /\ locks[i].tid = t
            /\ \A j \in 1..(i - 1) : locks[j].tid # t
    ELSE 0

\* list::erase(it)
EraseAt(locks, i) == [j \in 1..(Len(locks) - 1) |-> IF j < i THEN locks[j] ELSE locks[j + 1]]

\* TxList::checkCanGrant, lock_manager.h:63-73
checkCanGrant(locks, mode) ==
    IF locks = <<>>
    THEN TRUE
    ELSE IF mode = "SHARED"
         THEN locks[Len(locks)].granted /\ locks[Len(locks)].mode = "SHARED"
         ELSE FALSE

\* lockTemplate line 66: the wait-die test, made against the tail of the queue only
MustDie(locks, canGrant, t) == ~canGrant /\ locks[Len(locks)].tid < t

\* the lock set TxList::insert adds the RID to (lock_manager.h:87-94): TRUE for the shared set
IntoSharedSet(mode) == mode = "SHARED"

\* a lockTemplate that keeps the state of a transaction it refuses
RefuseKeepState(t, r, mode, locks, shared, ret) ==
    /\ ret = "false"
    /\ state' = state
    /\ lockTable_' = [lockTable_ EXCEPT ![r].locks = locks]
    /\ sharedSet' = [sharedSet EXCEPT ![t] = shared]
    /\ UNCHANGED <<exclSet, pc, req>>

\* the three "SetState(ABORTED); return false" exits of lockTemplate (lines 35-36, 47-48,
\* 55-56, 68-69); locks and shared are the queue and the shared set as the exit leaves them
Refuse(t, r, mode, locks, shared, ret) ==
    /\ ret = "false"
    /\ state' = [state EXCEPT ![t] = "ABORTED"]
    /\ lockTable_' = [lockTable_ EXCEPT ![r].locks = locks]
    /\ sharedSet' = [sharedSet EXCEPT ![t] = shared]
    /\ UNCHANGED <<exclSet, pc, req>>

\* a TxList::insert that files a granted upgrade under the mode it was asked with
insertKeepMode(t, r, mode, granted, locks, shared, ret) ==
    LET item == TxItem(t, mode, granted)
    IN  /\ ret = IF granted THEN "true" ELSE "blocked"
        /\ lockTable_' = [lockTable_ EXCEPT
                ![r].locks = Append(locks, item),
                ![r].hasUpgrading = @ \/ (~granted /\ mode = "UPGRADING")]
        /\ IF granted
           THEN /\ sharedSet' = [sharedSet EXCEPT ![t] = shared \cup {r}]
                /\ UNCHANGED exclSet
                /\ UNCHANGED <<pc, req>>
           ELSE /\ sharedSet' = [sharedSet EXCEPT ![t] = shared]
                /\ UNCHANGED exclSet
                /\ pc' = [pc EXCEPT ![t] = "blocked"]
                /\ req' = [req EXCEPT ![t] = [rid |-> r, mode |-> mode]]
        /\ UNCHANGED state

\* TxList::insert, lock_manager.h:74-95, up to the return or to TxItem::Wait
insert(t, r, mode, granted, locks, shared, ret) ==
    LET upgradingMode == mode = "UPGRADING"
        mode2 == IF upgradingMode /\ granted THEN "EXCLUSIVE" ELSE mode
        item == TxItem(t, mode2, granted)
    IN  /\ ret = IF granted THEN "true" ELSE "blocked"
        /\ lockTable_' = [lockTable_ EXCEPT
                ![r].locks = Append(locks, item),
                ![r].hasUpgrading = @ \/ (~granted /\ upgradingMode)]
        /\ IF granted
           THEN /\ IF IntoSharedSet(mode2)
                   THEN /\ sharedSet' = [sharedSet EXCEPT ![t] = shared \cup {r}]
                        /\ UNCHANGED exclSet
                   ELSE /\ sharedSet' = [sharedSet EXCEPT ![t] = shared]
                        /\ exclSet' = [exclSet EXCEPT ![t] = @ \cup {r}]
                /\ UNCHANGED <<pc, req>>
           ELSE /\ sharedSet' = [sharedSet EXCEPT ![t] = shared]
                /\ UNCHANGED exclSet
                /\ pc' = [pc EXCEPT ![t] = "blocked"]
                /\ req' = [req EXCEPT ![t] = [rid |-> r, mode |-> mode2]]
        /\ UNCHANGED state

\* a lockTemplate without the two-phase check of step 1
lockTemplateNo2PL(t, r, mode, ret) ==
    LET txList == lockTable_[r]
        canGrant == checkCanGrant(txList.locks, mode)
    IN  IF MustDie(txList.locks, canGrant, t)
        THEN Refuse(t, r, mode, txList.locks, sharedSet[t], ret)
        ELSE insert(t, r, mode, canGrant, txList.locks, sharedSet[t], ret)

\* LockManager::lockTemplate, part_000:30-74
lockTemplate(t, r, mode, ret) ==
    LET txList == lockTable_[r]
        it == FindTid(txList.locks, t)
    IN  IF state[t] # "GROWING"
        THEN Refuse(t, r, mode, txList.locks, sharedSet[t], ret)
        ELSE IF mode = "UPGRADING" /\ txList.hasUpgrading
        THEN Refuse(t, r, mode, txList.locks, sharedSet[t], ret)
        ELSE IF mode = "UPGRADING"
                /\ (it = 0 \/ txList.locks[it].mode # "SHARED" \/ ~txList.locks[it].granted)
        THEN Refuse(t, r, mode, txList.locks, sharedSet[t], ret)
        ELSE LET locks1 == IF mode = "UPGRADING" THEN EraseAt(txList.locks, it)
                                                  ELSE txList.locks
                 shared1 == IF mode = "UPGRADING" THEN sharedSet[t] \ {r} ELSE sharedSet[t]
                 canGrant == checkCanGrant(locks1, mode)
             IN  IF MustDie(locks1, canGrant, t)
                 THEN Refuse(t, r, mode, locks1, shared1, ret)
                 ELSE insert(t, r, mode, canGrant, locks1, shared1, ret)

\* TxList::insert lines 85-94: TxItem::Wait returns once granted_ is set, and the RID
\* goes into the lock set chosen by the mode the request was made with
\* no call of the transaction is waiting in TxItem::Wait
NoRequest == [rid |-> 0, mode |-> "NONE"]

LockResume(t) ==
    /\ pc[t] = "blocked"
    /\ LET r == req[t].rid
           it == FindTid(lockTable_[r].locks, t)
       IN  /\ it # 0
           /\ lockTable_[r].locks[it].granted
           /\ IF IntoSharedSet(req[t].mode)
              THEN /\ sharedSet' = [sharedSet EXCEPT ![t] = @ \cup {r}]
                   /\ UNCHANGED exclSet
              ELSE /\ exclSet' = [exclSet EXCEPT ![t] = @ \cup {r}]
                   /\ UNCHANGED sharedSet
    /\ pc' = [pc EXCEPT ![t] = "idle"]
    /\ req' = [req EXCEPT ![t] = NoRequest]
    /\ UNCHANGED <<lockTable_, state>>

\* a grant loop that leaves hasUpgrading_ as it is
RECURSIVE GrantFromKeepFlag(_, _)
GrantFromKeepFlag(txList, i) ==
    IF i > Len(txList.locks) \/ txList.locks[i].granted
    THEN txList
    ELSE IF txList.locks[i].mode = "SHARED"
         THEN GrantFromKeepFlag([txList EXCEPT !.locks[i].granted = TRUE], i + 1)
         ELSE [txList EXCEPT !.locks[i].granted = TRUE,
                             !.locks[i].mode = "EXCLUSIVE"]

\* Unlock step 3, part_000:114-129: the loop over locks_ from its i-th item on
RECURSIVE GrantFrom(_, _)
GrantFrom(txList, i) ==
    IF i > Len(txList.locks)
    THEN txList
    ELSE IF txList.locks[i].granted
         THEN txList                                                       \* line 116-117
         ELSE IF txList.locks[i].mode = "SHARED"
              THEN GrantFrom([txList EXCEPT !.locks[i].granted = TRUE], i + 1)   \* 118-121
              ELSE IF txList.locks[i].mode = "UPGRADING"
                   THEN [txList EXCEPT !.locks[i].granted = TRUE,          \* 118, 123-128
                                       !.locks[i].mode = "EXCLUSIVE",
                                       !.hasUpgrading = FALSE]
                   ELSE [txList EXCEPT !.locks[i].granted = TRUE]          \* 118, 128

\* an Unlock check that lets a strict lock manager release for a running transaction
UnlockRefusedNever(t) == FALSE

\* Unlock lines 84-91: under strict 2PL only a COMMITTED or ABORTED transaction may unlock
UnlockRefused(t) == strict_2PL_ /\ state[t] \notin {"COMMITTED", "ABORTED"}

\* Unlock lines 92-95: the state Unlock leaves a transaction in when it does not refuse
StateAfterUnlock(t) ==
    IF ~strict_2PL_ /\ state[t] = "GROWING" THEN "SHRINKING" ELSE state[t]

\* LockManager::Unlock, part_000:76-131
Unlock(t, r, ret) ==
    LET txList == lockTable_[r]
        it == FindTid(txList.locks, t)
        locks1 == EraseAt(txList.locks, it)
    IN  IF UnlockRefused(t)
        THEN /\ ret = "false"
             /\ state' = [state EXCEPT ![t] = "ABORTED"]
             /\ UNCHANGED <<lockTable_, sharedSet, exclSet>>
        ELSE /\ it # 0                                          \* assert, line 103
             /\ ret = "true"
             /\ state' = [state EXCEPT ![t] = StateAfterUnlock(t)]
             /\ IF txList.locks[it].mode = "SHARED"             \* lines 104-105
                THEN /\ sharedSet' = [sharedSet EXCEPT ![t] = @ \ {r}]
                     /\ UNCHANGED exclSet
                ELSE /\ exclSet' = [exclSet EXCEPT ![t] = @ \ {r}]
                     /\ UNCHANGED sharedSet
             /\ lockTable_' = [lockTable_ EXCEPT ![r] =
                    IF locks1 = <<>>
                    THEN EmptyTxList                            \* lockTable_.erase(rid)
                    ELSE GrantFrom([txList EXCEPT !.locks = locks1], 1)]

Rets == {"true", "false", "blocked"}

-----------------------------------------------------------------------------
(***************************************************************************)
(* The calls a transaction's thread makes on the lock manager.  The header *)
(* leaves locking a RID the transaction already holds undefined            *)
(* (lock_manager.h:105-106), so LockShared/LockExclusive are called for    *)
(* RIDs the transaction does not hold; LockUpgrade and Unlock are called   *)
(* in any state.                                                           *)
(***************************************************************************)
Held(t) == sharedSet[t] \cup exclSet[t]

WrittenRids(t) == {writeSet[t][i].rid : i \in 1..Len(writeSet[t])}

\* a call of LockShared (mode SHARED), LockExclusive (EXCLUSIVE) or LockUpgrade
\* (UPGRADING), part_000:11-24, up to its return (ret "true" or "false") or to the wait
\* in TxItem::Wait (ret "blocked")
LockCall(t, r, mode, ret) ==
    /\ pc[t] = "idle"
    /\ UNCHANGED notLM
    /\ mode # "UPGRADING" => r \notin Held(t)
    /\ lockTemplate(t, r, mode, ret)
    /\ UNCHANGED <<strict_2PL_, enable_logging, next_txn_id_, writeSet, lastLog, flushed,
                   lock_set>>

LockShared(t, r) == \E ret \in Rets : LockCall(t, r, "SHARED", ret)

LockExclusive(t, r) == \E ret \in Rets : LockCall(t, r, "EXCLUSIVE", ret)

LockUpgrade(t, r) == \E ret \in Rets : LockCall(t, r, "UPGRADING", ret)

\* the blocked call returns true
Resume(t) ==
    /\ LockResume(t)
    /\ UNCHANGED notLM
    /\ UNCHANGED <<strict_2PL_, enable_logging, next_txn_id_, writeSet, lastLog, flushed,
                   lock_set>>

\* Unlock called by the transaction's thread itself, for a lock it holds on a tuple it
\* has not written
UnlockCall(t, r, ret) ==
    /\ pc[t] = "idle"
    /\ UNCHANGED notLM
    /\ r \in Held(t) \ WrittenRids(t)
    /\ Unlock(t, r, ret)
    /\ UNCHANGED <<strict_2PL_, enable_logging, next_txn_id_, writeSet, lastLog, flushed,
                   pc, req, lock_set>>

UserUnlock(t, r) == \E ret \in Rets : UnlockCall(t, r, ret)

-----------------------------------------------------------------------------
(***************************************************************************)
(* TransactionManager.  Commit and Abort are sequences of steps of the     *)
(* calling thread: pc = "drain" (the while loop over the write set),       *)
(* "flush" (blocked in LogManager::Flush), "release" (the loop of Unlock   *)
(* calls), "done" (returned).  During them state[t] tells Commit           *)
(* (COMMITTED) from Abort (ABORTED).  Statements that touch only the       *)
(* transaction's own fields belong to the step of the statement before     *)
(* them; a step ends at a call of Unlock or at the wait in Flush.          *)
(***************************************************************************)
\* TransactionManager::Begin, part_001:12-25
Begin ==
    /\ UNCHANGED notLM
    /\ next_txn_id_ \in TxnIds
    /\ pc[next_txn_id_] = "none"
    /\ pc' = [pc EXCEPT ![next_txn_id_] = "idle"]
    /\ next_txn_id_' = next_txn_id_ + 1
    /\ lastLog' = [lastLog EXCEPT ![next_txn_id_] = IF enable_logging THEN "BEGIN" ELSE @]
    /\ UNCHANGED <<strict_2PL_, enable_logging, lockTable_, state, sharedSet, exclSet,
                   writeSet, flushed, req, lock_set>>

\* The table heap records a write of a tuple the transaction holds EXCLUSIVE: an entry
\* (rid, wtype) is appended to the write set.  A tuple is inserted at most once and
\* marked deleted at most once by a transaction, and not touched after it is deleted.
Write(t, r, w) ==
    /\ UNCHANGED notLM
    /\ pc[t] = "idle"
    /\ state[t] \in {"GROWING", "SHRINKING"}
    /\ r \in exclSet[t]
    /\ Len(writeSet[t]) < MaxWrites
    /\ \A i \in 1..Len(writeSet[t]) : writeSet[t][i].rid = r => writeSet[t][i].wtype # "DELETE"
    /\ w = "INSERT" => r \notin WrittenRids(t)
    /\ writeSet' = [writeSet EXCEPT ![t] = Append(@, [wtype |-> w, rid |-> r])]
    /\ UNCHANGED <<strict_2PL_, enable_logging, lockTable_, next_txn_id_, state, sharedSet,
                   exclSet, lastLog, flushed, pc, req, lock_set>>

\* the record Commit (line 50) and Abort (line 100) append
EndRecord(st) == IF st = "COMMITTED" THEN "COMMIT" ELSE "ABORT"

\* a release loop that skips the RIDs of the exclusive lock set
CollectLockSetSharedOnly(t) == sharedSet'[t]

\* the local lock_set Commit and Abort build from both lock sets as the step leaves
\* them: part_001:56-60, 106-110
CollectLockSet(t) == sharedSet'[t] \cup exclSet'[t]

\* Commit lines 56-65 / Abort lines 106-115, up to the first Unlock call: the thread
\* returns at once when there is nothing to release
BeginRelease(t) ==
    /\ lock_set' = [lock_set EXCEPT ![t] = CollectLockSet(t)]
    /\ pc' = [pc EXCEPT ![t] = IF lock_set'[t] = {} THEN "done" ELSE "release"]

\* Commit lines 43-53 / Abort lines 95-103: the write set is empty; with logging the
\* COMMIT/ABORT record is appended and the thread blocks in Flush(false)
AfterDrain(t, st) ==
    IF enable_logging
    THEN /\ lastLog' = [lastLog EXCEPT ![t] = EndRecord(st)]
         /\ pc' = [pc EXCEPT ![t] = "flush"]
         /\ UNCHANGED lock_set
    ELSE /\ UNCHANGED lastLog
         /\ BeginRelease(t)

\* Commit lines 29-32 (and on, when the write set is empty)
Commit(t) ==
    /\ UNCHANGED notLM
    /\ pc[t] = "idle"
    /\ state[t] \in {"GROWING", "SHRINKING"}
    /\ state' = [state EXCEPT ![t] = "COMMITTED"]
    /\ UNCHANGED <<lockTable_, sharedSet, exclSet, writeSet>>
    /\ IF writeSet[t] = <<>>
       THEN AfterDrain(t, "COMMITTED")
       ELSE /\ pc' = [pc EXCEPT ![t] = "drain"]
            /\ UNCHANGED <<lastLog, lock_set>>
    /\ UNCHANGED <<strict_2PL_, enable_logging, next_txn_id_, flushed, req>>

\* Abort lines 70-74 (and on, when the write set is empty)
Abort(t) ==
    /\ UNCHANGED notLM
    /\ pc[t] = "idle"
    /\ state' = [state EXCEPT ![t] = "ABORTED"]
    /\ UNCHANGED <<lockTable_, sharedSet, exclSet, writeSet>>
    /\ IF writeSet[t] = <<>>
       THEN AfterDrain(t, "ABORTED")
       ELSE /\ pc' = [pc EXCEPT ![t] = "drain"]
            /\ UNCHANGED <<lastLog, lock_set>>
    /\ UNCHANGED <<strict_2PL_, enable_logging, next_txn_id_, flushed, req>>

\* whether the write-set item is handed to TableHeap::ApplyDelete:
\* Commit lines 36-40 (DELETE), Abort lines 83-87 (INSERT)
CallsApplyDelete(t, item) ==
    \/ state[t] = "COMMITTED" /\ item.wtype = "DELETE"
    \/ state[t] = "ABORTED" /\ item.wtype = "INSERT"

\* TableHeap::ApplyDelete as its caller documents it at part_001:38: "this also release
\* the lock when holding the page latch", i.e. it calls LockManager::Unlock(txn, rid)
ApplyDelete(t, r) ==
    /\ \E ret \in Rets : Unlock(t, r, ret)

\* one iteration of the while loop over the write set: Commit lines 32-42, Abort lines
\* 74-94 (and on, when it was the last one)
DrainStep(t) ==
    /\ UNCHANGED notLM
    /\ pc[t] = "drain"
    /\ writeSet[t] # <<>>
    /\ LET item == writeSet[t][Len(writeSet[t])]
       IN  IF CallsApplyDelete(t, item)
           THEN /\ ApplyDelete(t, item.rid)
           ELSE /\ UNCHANGED <<lockTable_, state, sharedSet, exclSet>>
    /\ writeSet' = [writeSet EXCEPT ![t] = SubSeq(@, 1, Len(@) - 1)]
    /\ IF writeSet'[t] = <<>>
       THEN AfterDrain(t, state[t])
       ELSE UNCHANGED <<pc, lastLog, lock_set>>
    /\ UNCHANGED <<strict_2PL_, enable_logging, next_txn_id_, flushed, req>>

\* LogManager::Flush(false) returns: Commit line 52, Abort line 102
FlushReturn(t) ==
    /\ UNCHANGED notLM
    /\ pc[t] = "flush"
    /\ flushed' = [flushed EXCEPT ![t] = TRUE]
    /\ UNCHANGED <<sharedSet, exclSet>>
    /\ BeginRelease(t)
    /\ UNCHANGED <<strict_2PL_, enable_logging, lockTable_, next_txn_id_, state,
                   writeSet, lastLog, req>>

\* one iteration of the release loop, Commit lines 62-65 / Abort lines 112-115; Commit or
\* Abort returns after the last one
ReleaseStep(t, r) ==
    /\ UNCHANGED notLM
    /\ pc[t] = "release"
    /\ r \in lock_set[t]
    /\ \E ret \in Rets : Unlock(t, r, ret)
    /\ lock_set' = [lock_set EXCEPT ![t] = @ \ {r}]
    /\ pc' = [pc EXCEPT ![t] = IF lock_set'[t] = {} THEN "done" ELSE "release"]
    /\ UNCHANGED <<strict_2PL_, enable_logging, next_txn_id_, writeSet, lastLog, flushed,
                   req>>

\* a lock call on a transaction whose Commit or Abort has returned: lockTemplate does
\* not look at who calls it, part_000:30-37
LateLockCall(t, r, mode, ret) ==
    /\ pc[t] = "done"
    /\ UNCHANGED notLM
    /\ lockTemplate(t, r, mode, ret)
    /\ UNCHANGED <<strict_2PL_, enable_logging, next_txn_id_, writeSet, lastLog, flushed,
                   lock_set>>

\* Commit (st COMMITTED, part_001:27-65) or Abort (st ABORTED, part_001:70-115) called
\* again on a transaction whose Commit or Abort has returned: the state is set
\* whatever it was, the write set is empty
LateEnd(t, st) ==
    /\ pc[t] = "done"
    /\ UNCHANGED notLM
    /\ state' = [state EXCEPT ![t] = st]
    /\ UNCHANGED <<lockTable_, sharedSet, exclSet, writeSet>>
    /\ AfterDrain(t, st)
    /\ UNCHANGED <<strict_2PL_, enable_logging, next_txn_id_, flushed, req>>

-----------------------------------------------------------------------------
(***************************************************************************)
(* The rollback of TransactionManager::Abort followed tuple by tuple       *)
(* (part_001:68-95).  One transaction writes tuples of one table heap and  *)
(* is then aborted; the tuples it writes are EXCLUSIVE-locked by it, so no *)
(* other transaction touches them in between.  The table heap itself       *)
(* (table/table_heap.cpp) is outside src/; its five operations are         *)
(* modelled as section 4.4 and the write-set description of section 3 of   *)
(* the specification give them.                                            *)
(***************************************************************************)
Vals == 1..NumVals

\* a slot of the table heap: free, or a tuple with its content and its delete mark
FreeSlot == [val |-> 0, deleted |-> FALSE]
Slots == {FreeSlot} \cup [val : Vals, deleted : BOOLEAN]

\* TableHeap::InsertTuple: the tuple is stored in a free slot and the write is recorded
InsertTuple(r, v) ==
    /\ UNCHANGED notUndo
    /\ undo_pc = "running"
    /\ Len(write_set) < MaxUndo
    /\ table_[r] = FreeSlot
    /\ table_' = [table_ EXCEPT ![r] = [val |-> v, deleted |-> FALSE]]
    /\ write_set' = Append(write_set, [wtype_ |-> "INSERT", rid_ |-> r, tuple_ |-> v])
    /\ UNCHANGED <<begin_table, undone, undo_pc>>

\* TableHeap::MarkDelete: the tuple is marked deleted and the write is recorded
MarkDelete(r) ==
    /\ UNCHANGED notUndo
    /\ undo_pc = "running"
    /\ Len(write_set) < MaxUndo
    /\ table_[r] # FreeSlot
    /\ ~table_[r].deleted
    /\ table_' = [table_ EXCEPT ![r].deleted = TRUE]
    /\ write_set' = Append(write_set, [wtype_ |-> "DELETE", rid_ |-> r, tuple_ |-> table_[r].val])
    /\ UNCHANGED <<begin_table, undone, undo_pc>>

\* TableHeap::UpdateTuple called by a running transaction: the tuple is overwritten
\* and the write is recorded with the before-image
UpdateTuple(r, v) ==
    /\ UNCHANGED notUndo
    /\ undo_pc = "running"
    /\ Len(write_set) < MaxUndo
    /\ table_[r] # FreeSlot
    /\ ~table_[r].deleted
    /\ table_' = [table_ EXCEPT ![r].val = v]
    /\ write_set' = Append(write_set, [wtype_ |-> "UPDATE", rid_ |-> r, tuple_ |-> table_[r].val])
    /\ UNCHANGED <<begin_table, undone, undo_pc>>

\* TableHeap::RollbackDelete: the delete mark is cleared
RollbackDeleteSlot(slot) == [slot EXCEPT !.deleted = FALSE]

\* TableHeap::ApplyDelete: the tuple is physically removed
ApplyDeleteSlot(slot) == FreeSlot

\* TableHeap::UpdateTuple called by an ABORTED transaction: the tuple is overwritten,
\* nothing is recorded
UpdateTupleSlot(slot, tuple) == [slot EXCEPT !.val = tuple]

\* a loop that takes the oldest record first
UndoIndexFront(ws) == 1

\* the record one iteration of the loop takes: write_set->back(), part_001:76
UndoIndex(ws) == Len(ws)

\* the inverse the loop applies to the record's tuple: part_001:78-92
Inverse(item, slot) ==
    IF item.wtype_ = "DELETE" THEN RollbackDeleteSlot(slot)
    ELSE IF item.wtype_ = "INSERT" THEN ApplyDeleteSlot(slot)
    ELSE IF item.wtype_ = "UPDATE" THEN UpdateTupleSlot(slot, item.tuple_)
    ELSE slot

\* the write set without the record the iteration took.  The code pops the back
\* (line 93), which is the record UndoIndex names.
PopUndone(ws) == [j \in 1..(Len(ws) - 1) |-> IF j < UndoIndex(ws) THEN ws[j] ELSE ws[j + 1]]

\* Abort lines 70-74: SetState(ABORTED), and the loop is entered; with an empty write
\* set the loop and the clear() of line 95 are passed at once
AbortBegin ==
    /\ UNCHANGED notUndo
    /\ undo_pc = "running"
    /\ undo_pc' = IF write_set = <<>> THEN "aborted" ELSE "rollback"
    /\ UNCHANGED <<table_, begin_table, write_set, undone>>

\* one iteration of the loop, Abort lines 74-94 (and line 95 after the last one)
AbortStep ==
    /\ UNCHANGED notUndo
    /\ undo_pc = "rollback"
    /\ write_set # <<>>
    /\ LET item == write_set[UndoIndex(write_set)]
       IN  /\ table_' = [table_ EXCEPT ![item.rid_] = Inverse(item, @)]
           /\ undone' = Append(undone, item)
    /\ write_set' = PopUndone(write_set)
    /\ undo_pc' = IF write_set' = <<>> THEN "aborted" ELSE "rollback"
    /\ UNCHANGED begin_table

\* before the transaction's first write: any content of the table, nothing recorded
InitUndo ==
    /\ table_ \in [Rids -> Slots]
    /\ begin_table = table_
    /\ write_set = <<>>
    /\ undone = <<>>
    /\ undo_pc = "running"

\* the one value these variables keep in the specifications of the other components
InitUndoIdle ==
    /\ table_ = [r \in Rids |-> FreeSlot]
    /\ InitUndo

NextUndo ==
    \/ \E r \in Rids, v \in Vals : InsertTuple(r, v)
    \/ \E r \in Rids : MarkDelete(r)
    \/ \E r \in Rids, v \in Vals : UpdateTuple(r, v)
    \/ AbortBegin
    \/ AbortStep

-----------------------------------------------------------------------------
(***************************************************************************)
(* The B+ tree index (src/unnamed/part_002 = b_plus_tree.cpp and           *)
(* b_plus_tree_leaf_page.cpp, src/src/include/index/index_iterator.h).     *)
(* Worker threads call GetValue, Insert and Remove; a call is a sequence   *)
(* of steps, each ending where the thread may block on a latch or where    *)
(* it holds the latches of everything it has changed.  The page header     *)
(* (b_plus_tree_page.cpp), the internal page, the tree's header file       *)
(* (LockRootPageId, TryUnlockRootPageId) and the buffer pool are outside   *)
(* src/ and are modelled as sections 3, 4.2 and 6 of the specification     *)
(* give them.  A page latch and the tree-root latch are RWMutex objects,   *)
(* reduced here to their holders.                                          *)
(***************************************************************************)
\* config.h INVALID_PAGE_ID; HEADER_PAGE_ID is 0, so tree pages have ids >= 1
INVALID_PAGE_ID == -1
\* the value a lookup leaves untouched when the key is absent
NoRid == 0

PageIds == 1..MaxPages
Keys == 1..NumKeys
TreeRids == 1..NumTreeRids
\* the RIDs the callers insert with a key
RidsOf(k) == {v \in TreeRids : k <= NumFreeRidKeys \/ v = 1 + (k % NumTreeRids)}
Workers == 1..NumWorkers

\* a frame that holds no page of the tree
FreePage == [type |-> "FREE", arr |-> <<>>, parent |-> INVALID_PAGE_ID,
             next |-> INVALID_PAGE_ID]

GetSize(page) == Len(page.arr)
IsLeafPage(page) == page.type = "LEAF"
IsRootPage(page) == page.parent = INVALID_PAGE_ID
\* KeyAt / ValueAt take the code's 0-based index
KeyAt(page, i) == page.arr[i + 1].k
ValueAt(page, i) == page.arr[i + 1].v

\* max_size, fixed by a page's Init from the page and slot sizes (part_002:1069)
GetMaxSize(page) == IF IsLeafPage(page) THEN leaf_max_size ELSE internal_max_size

CeilHalf(n) == (n + 1) \div 2

\* BPlusTreePage::GetMinSize: section 4.2 gives ceil(max_size/2) for leaves and
\* ceil((max_size+1)/2) for internal pages; a root may hold less (part_002:385):
\* Remove and AdjustRoot (part_002:245, 399, 406) fit a root leaf that is
\* rebalanced only when empty and an internal root that keeps at least 2 children
GetMinSize(page) ==
    IF IsRootPage(page) THEN (IF IsLeafPage(page) THEN 1 ELSE 2)
    ELSE IF IsLeafPage(page) THEN CeilHalf(GetMaxSize(page))
    ELSE CeilHalf(GetMaxSize(page) + 1)

\* BPlusTreePage::IsSafe as step 4 of the crabbing protocol gives it
IsSafe(page, op) ==
    IF op = "INSERT" THEN GetSize(page) < GetMaxSize(page)
    ELSE IF op = "DELETE" THEN GetSize(page) > GetMinSize(page)
    ELSE TRUE

InsertAt(arr, i, entry) == SubSeq(arr, 1, i) \o <<entry>> \o SubSeq(arr, i + 1, Len(arr))
RemoveAt(arr, i) == SubSeq(arr, 1, i) \o SubSeq(arr, i + 2, Len(arr))

(***************************************************************************)
(* Leaf page, part_002:1060-1324.                                          *)
(***************************************************************************)
\* the binary search of KeyIndex, part_002:1093-1102
RECURSIVE KeyIndexFrom(_, _, _, _)
KeyIndexFrom(arr, key, st, ed) ==
    IF st > ed THEN ed + 1
    ELSE LET mid == (ed - st) \div 2 + st
         IN  IF arr[mid + 1].k >= key
             THEN KeyIndexFrom(arr, key, st, mid - 1)
             ELSE KeyIndexFrom(arr, key, mid + 1, ed)

\* B_PLUS_TREE_LEAF_PAGE_TYPE::KeyIndex: the first index i with array[i].first >= key
KeyIndex(page, key) == KeyIndexFrom(page.arr, key, 0, GetSize(page) - 1)

\* a lookup that never finds the key
LeafLookupNone(page, key) == NoRid

\* B_PLUS_TREE_LEAF_PAGE_TYPE::Lookup, part_002:1196-1206: the value, NoRid when absent
LeafLookup(page, key) ==
    LET idx == KeyIndex(page, key)
    IN  IF idx < GetSize(page) /\ KeyAt(page, idx) = key THEN ValueAt(page, idx) ELSE NoRid

\* B_PLUS_TREE_LEAF_PAGE_TYPE::Init, part_002:1060-1070
LeafInit(parent_id) ==
    [type |-> "LEAF", arr |-> <<>>, parent |-> parent_id, next |-> INVALID_PAGE_ID]

\* an insert that puts the pair after the last entry, whatever its key
LeafInsertLast(page, key, value) ==
    [page EXCEPT !.arr = Append(@, [k |-> key, v |-> value])]

\* B_PLUS_TREE_LEAF_PAGE_TYPE::Insert, part_002:1135-1151
LeafInsert(page, key, value) ==
    [page EXCEPT !.arr = InsertAt(@, KeyIndex(page, key), [k |-> key, v |-> value])]

\* a split that moves the last pair only
LeafSplitIndexLast(max) == max

\* the index the upper half starts at, part_002:1165-1168
LeafSplitIndex(max) == (max + 1) \div 2

\* B_PLUS_TREE_LEAF_PAGE_TYPE::MoveHalfTo, part_002:1160-1182, on the page table pg:
\* page p gives its upper half to the new page r
LeafMoveHalfTo(pg, p, r) ==
    LET total == GetMaxSize(pg[p]) + 1
        copyIdx == LeafSplitIndex(GetMaxSize(pg[p]))
    IN  [pg EXCEPT ![r].arr = SubSeq(pg[p].arr, copyIdx + 1, total),
                   ![r].next = pg[p].next,
                   ![p].next = r,
                   ![p].arr = SubSeq(pg[p].arr, 1, copyIdx)]

\* B_PLUS_TREE_LEAF_PAGE_TYPE::RemoveAndDeleteRecord, part_002:1218-1232
RemoveAndDeleteRecord(page, key) ==
    LET idx == KeyIndex(page, key)
    IN  IF idx >= GetSize(page) \/ KeyAt(page, idx) # key THEN page
        ELSE [page EXCEPT !.arr = RemoveAt(@, idx)]

\* a merge that forgets the chain pointer of the page it empties
LeafMoveAllToKeepNext(pg, p, r) ==
    [pg EXCEPT ![r].arr = pg[r].arr \o pg[p].arr,
               ![p].arr = <<>>]

\* B_PLUS_TREE_LEAF_PAGE_TYPE::MoveAllTo, part_002:1243-1262: page p gives everything
\* to page r
LeafMoveAllTo(pg, p, r) ==
    [pg EXCEPT ![r].arr = pg[r].arr \o pg[p].arr,
               ![r].next = pg[p].next,
               ![p].arr = <<>>]

(***************************************************************************)
(* Internal page.  Slot 0 holds a child and no key (its key is 0 here).    *)
(***************************************************************************)
\* BPlusTreeInternalPage::Init
InternalInit(parent_id) ==
    [type |-> "INTERNAL", arr |-> <<>>, parent |-> parent_id, next |-> INVALID_PAGE_ID]

\* BPlusTreeInternalPage::Lookup: the child of the slot i with keys[i] <= key < keys[i+1],
\* keys[0] taken as minus infinity
InternalLookup(page, key) ==
    LET fits == {i \in 0..(GetSize(page) - 1) : i = 0 \/ KeyAt(page, i) <= key}
        slot == CHOOSE i \in fits : \A j \in fits : j <= i
    IN  ValueAt(page, slot)

\* BPlusTreeInternalPage::ValueIndex: the slot that holds the child, GetSize when none does
ValueIndex(page, child) ==
    LET at == {i \in 0..(GetSize(page) - 1) : ValueAt(page, i) = child}
    IN  IF at = {} THEN GetSize(page) ELSE CHOOSE i \in at : \A j \in at : i <= j

\* BPlusTreeInternalPage::InsertNodeAfter
InsertNodeAfter(page, old_value, key, new_value) ==
    [page EXCEPT !.arr = InsertAt(@, ValueIndex(page, old_value) + 1,
                                  [k |-> key, v |-> new_value])]

\* BPlusTreeInternalPage::PopulateNewRoot
PopulateNewRoot(page, old_value, key, new_value) ==
    [page EXCEPT !.arr = <<[k |-> 0, v |-> old_value], [k |-> key, v |-> new_value]>>]

\* BPlusTreeInternalPage::Remove(index)
InternalRemove(page, index) == [page EXCEPT !.arr = RemoveAt(@, index)]

\* the children named by the entries get a new parent
Adopt(pg, entries, parent_id) ==
    [q \in DOMAIN pg |->
        IF \E i \in 1..Len(entries) : entries[i].v = q
        THEN [pg[q] EXCEPT !.parent = parent_id] ELSE pg[q]]

\* BPlusTreeInternalPage::MoveHalfTo: page p gives its upper half to the new page r,
\* split as a leaf is split; the first moved key stays in slot 0 of r, where
\* InsertIntoParent reads it (part_002:223)
InternalMoveHalfTo(pg, p, r) ==
    LET total == GetMaxSize(pg[p]) + 1
        copyIdx == total \div 2
        moved == SubSeq(pg[p].arr, copyIdx + 1, total)
    IN  Adopt([pg EXCEPT ![r].arr = moved,
                         ![p].arr = SubSeq(pg[p].arr, 1, copyIdx)], moved, r)

\* a merge that hangs page p under its left neighbour r as one more child
InternalMoveAllToAsChild(pg, p, r, index) ==
    [pg EXCEPT ![r].arr = Append(@, [k |-> KeyAt(pg[pg[p].parent], index), v |-> p])]

\* BPlusTreeInternalPage::MoveAllTo: page p gives everything to its left neighbour r;
\* the separator in the parent's slot index comes down as the key of p's first child
InternalMoveAllTo(pg, p, r, index) ==
    LET sep == KeyAt(pg[pg[p].parent], index)
        moved == [pg[p].arr EXCEPT ![1].k = sep]
    IN  Adopt([pg EXCEPT ![r].arr = pg[r].arr \o moved,
                         ![p].arr = <<>>], moved, r)

\* BPlusTreeInternalPage::MoveFirstToEndOf: the right neighbour p gives its first child
\* to r; the separator between them comes down and p's next key goes up
InternalMoveFirstToEndOf(pg, p, r) ==
    LET par == pg[p].parent
        idx == ValueIndex(pg[par], p)
        entry == [k |-> KeyAt(pg[par], idx), v |-> ValueAt(pg[p], 0)]
        rest == Tail(pg[p].arr)
    IN  Adopt([pg EXCEPT ![r].arr = Append(@, entry),
                         ![p].arr = [rest EXCEPT ![1].k = 0],
                         ![par].arr[idx + 1].k = rest[1].k], <<entry>>, r)

\* BPlusTreeInternalPage::MoveLastToFrontOf: the left neighbour p gives its last child to
\* r, whose slot in the parent is parentIndex; the separator comes down and p's last
\* key goes up
InternalMoveLastToFrontOf(pg, p, r, parentIndex) ==
    LET par == pg[r].parent
        last == pg[p].arr[GetSize(pg[p])]
        sep == KeyAt(pg[par], parentIndex)
        entry == [k |-> 0, v |-> last.v]
    IN  Adopt([pg EXCEPT ![r].arr = <<entry>> \o [@ EXCEPT ![1].k = sep],
                         ![p].arr = SubSeq(@, 1, Len(@) - 1),
                         ![par].arr[parentIndex + 1].k = last.k], <<entry>>, r)

(***************************************************************************)
(* What one step of a thread works on: the shared pages, pin counts and    *)
(* latches, and the thread's own page set, deleted-page set and            *)
(* rootLockedCnt.  The operators below map such a record to the record     *)
(* after a call.                                                           *)
(***************************************************************************)
Ctx(t) ==
    [pg |-> pages, root |-> root_page_id_, pin |-> pin_count_, wl |-> wlatch,
     rl |-> rlatch, mw |-> mutex_w, mr |-> mutex_r, hdr |-> header_record,
     ps |-> wk[t].ps, ds |-> wk[t].ds, cnt |-> wk[t].cnt, ok |-> TRUE]

\* BufferPoolManager (section 6): fetch pins, unpin releases one pin, a new page is a
\* free frame pinned once, a page is deleted only when nothing pins it.  pin counts the
\* fetches less the unpins of a page: it is negative after an unpin that no fetch matches
FetchPage(s, p) == [s EXCEPT !.pin[p] = @ + 1]
\* an unpin that leaves the pin in place
UnpinPageNot(s, p) == s
UnpinPage(s, p) == [s EXCEPT !.pin[p] = @ - 1]
FreeIds(s) == {p \in PageIds : s.pg[p].type = "FREE" /\ s.pin[p] = 0}
NewPageId(s) == CHOOSE p \in FreeIds(s) : \A q \in FreeIds(s) : p <= q
NewPage(s, p) == [s EXCEPT !.pin[p] = 1]
DeletePage(s, p) == IF s.pin[p] = 0 THEN [s EXCEPT !.pg[p] = FreePage] ELSE s

\* Page::WLatch/RLatch can return, and BPlusTree::Lock / Unlock on a page
CanLatch(s, exclusive, p) == s.wl[p] = 0 /\ (exclusive => s.rl[p] = {})
LatchPage(s, t, exclusive, p) ==
    IF exclusive THEN [s EXCEPT !.wl[p] = t] ELSE [s EXCEPT !.rl[p] = @ \cup {t}]
UnlatchPage(s, t, exclusive, p) ==
    IF exclusive THEN [s EXCEPT !.wl[p] = 0] ELSE [s EXCEPT !.rl[p] = @ \ {t}]

\* the tree's mutex_ can be taken, BPlusTree::LockRootPageId and TryUnlockRootPageId
\* (section 4.2 step 1 and step 4: released "if still held", by the thread-local counter)
CanLockRoot(s, exclusive) == s.mw = 0 /\ (exclusive => s.mr = {})
LockRootPageId(s, t, exclusive) ==
    IF exclusive THEN [s EXCEPT !.mw = t, !.cnt = @ + 1]
    ELSE [s EXCEPT !.mr = @ \cup {t}, !.cnt = @ + 1]
TryUnlockRootPageId(s, t, exclusive) ==
    IF s.cnt > 0
    THEN IF exclusive THEN [s EXCEPT !.mw = 0, !.cnt = @ - 1]
         ELSE [s EXCEPT !.mr = @ \ {t}, !.cnt = @ - 1]
    ELSE s

\* the loop of FreePagesInTransaction over the page set, part_002:541-552
RECURSIVE FreePageSet(_, _, _, _)
FreePageSet(s, t, exclusive, set) ==
    IF set = <<>> THEN s
    ELSE LET p == Head(set)
             s1 == UnpinPage(UnlatchPage(s, t, exclusive, p), p)
             s2 == IF p \in s1.ds THEN [DeletePage(s1, p) EXCEPT !.ds = @ \ {p}] ELSE s1
         IN  FreePageSet(s2, t, exclusive, Tail(set))

\* BPlusTree::FreePagesInTransaction, part_002:531-555; txn says whether a transaction
\* was passed; ok records the assert of line 553
FreePagesInTransaction(s, t, exclusive, txn, cur) ==
    LET s1 == TryUnlockRootPageId(s, t, exclusive)
    IN  IF ~txn THEN UnpinPage(UnlatchPage(s1, t, FALSE, cur), cur)
        ELSE LET s2 == FreePageSet(s1, t, exclusive, s1.ps)
             IN  [s2 EXCEPT !.ps = <<>>, !.ok = (s2.ds = {})]

\* the header page holds no record for index_name_
NoRecord == -2

\* BPlusTree::UpdateRootPageId, part_002:566-577.  HeaderPage::InsertRecord adds the
\* record (index_name_, root_page_id_) and leaves a record the page has for the name as
\* it is; HeaderPage::UpdateRecord changes the record the page has for the name and
\* adds none.  The header page is fetched and unpinned in the call.
UpdateRootPageId(s, insert_record) ==
    IF insert_record = (s.hdr = NoRecord) THEN [s EXCEPT !.hdr = s.root] ELSE s

\* BPlusTree::StartNewTree, part_002:93-110
StartNewTree(s, key, value) ==
    LET p == NewPageId(s)
        s1 == NewPage(s, p)
        s2 == UpdateRootPageId([s1 EXCEPT !.pg[p] = LeafInit(INVALID_PAGE_ID), !.root = p], TRUE)
        s3 == [s2 EXCEPT !.pg[p] = LeafInsert(@, key, value)]
    IN  UnpinPage(s3, p)

\* BPlusTree::Split, part_002:153-167: the new page is write-latched and joins the
\* page set
Split(s, t, n) ==
    LET r == NewPageId(s)
        s1 == LatchPage(NewPage(s, r), t, TRUE, r)
        s2 == [s1 EXCEPT !.ps = Append(@, r)]
    IN  IF IsLeafPage(s.pg[n])
        THEN [s2 EXCEPT !.pg = LeafMoveHalfTo([s2.pg EXCEPT ![r] = LeafInit(s.pg[n].parent)], n, r)]
        ELSE [s2 EXCEPT !.pg = InternalMoveHalfTo(
                                   [s2.pg EXCEPT ![r] = InternalInit(s.pg[n].parent)], n, r)]

\* BPlusTree::InsertIntoParent, part_002:179-226
RECURSIVE InsertIntoParent(_, _, _, _, _)
InsertIntoParent(s, t, old_node, key, new_node) ==
    IF IsRootPage(s.pg[old_node])
    THEN LET newRoot == NewPageId(s)
             s1 == NewPage(s, newRoot)
             s2 == [s1 EXCEPT !.root = newRoot,
                              !.pg[newRoot] = PopulateNewRoot(InternalInit(INVALID_PAGE_ID),
                                                              old_node, key, new_node),
                              !.pg[old_node].parent = newRoot,
                              !.pg[new_node].parent = newRoot]
         IN  UnpinPage(UpdateRootPageId(s2, FALSE), newRoot)
    ELSE LET parentId == s.pg[old_node].parent
             s1 == FetchPage(s, parentId)
             s2 == [s1 EXCEPT !.pg[new_node].parent = parentId,
                              !.pg[parentId] = InsertNodeAfter(@, old_node, key, new_node)]
             s3 == IF GetSize(s2.pg[parentId]) > GetMaxSize(s2.pg[parentId])
                   THEN LET newPage == NewPageId(s2)
                            s4 == Split(s2, t, parentId)
                        IN  InsertIntoParent(s4, t, parentId, KeyAt(s4.pg[newPage], 0), newPage)
                   ELSE s2
         IN  UnpinPage(s3, parentId)

\* B_PLUS_TREE_LEAF_PAGE_TYPE::MoveFirstToEndOf with CopyLastFrom, part_002:1274-1295:
\* the right neighbour p gives its first pair to r
LeafMoveFirstToEndOf(s, p, r) ==
    LET par == s.pg[p].parent
        rest == Tail(s.pg[p].arr)
        s1 == [s EXCEPT !.pg[p].arr = rest, !.pg[r].arr = Append(@, Head(s.pg[p].arr))]
        s2 == FetchPage(s1, par)
        s3 == [s2 EXCEPT !.pg[par].arr[ValueIndex(s.pg[par], p) + 1].k = rest[1].k]
    IN  UnpinPage(s3, par)

\* B_PLUS_TREE_LEAF_PAGE_TYPE::MoveLastToFrontOf with CopyFirstFrom, part_002:1301-1324:
\* the left neighbour p gives its last pair to r
LeafMoveLastToFrontOf(s, p, r, parentIndex) ==
    LET par == s.pg[r].parent
        pair == s.pg[p].arr[GetSize(s.pg[p])]
        s1 == [s EXCEPT !.pg[p].arr = SubSeq(@, 1, Len(@) - 1),
                        !.pg[r].arr = <<pair>> \o @]
        s2 == FetchPage(s1, par)
        s3 == [s2 EXCEPT !.pg[par].arr[parentIndex + 1].k = pair.k]
    IN  UnpinPage(s3, par)

\* BPlusTree::Redistribute, part_002:372-382
Redistribute(s, neighbor_node, node, index) ==
    IF index = 0
    THEN IF IsLeafPage(s.pg[node])
         THEN LeafMoveFirstToEndOf(s, neighbor_node, node)
         ELSE [s EXCEPT !.pg = InternalMoveFirstToEndOf(s.pg, neighbor_node, node)]
    ELSE IF IsLeafPage(s.pg[node])
         THEN LeafMoveLastToFrontOf(s, neighbor_node, node, index)
         ELSE [s EXCEPT !.pg = InternalMoveLastToFrontOf(s.pg, neighbor_node, node, index)]

\* whether AdjustRoot tells its caller to delete the old root, part_002:397, 406
AdjustRootDeletes(page) == IsLeafPage(page) \/ GetSize(page) = 1

\* BPlusTree::AdjustRoot, part_002:394-423
AdjustRoot(s, old_root) ==
    IF IsLeafPage(s.pg[old_root])
    THEN UpdateRootPageId(
             [s EXCEPT !.root = INVALID_PAGE_ID,
                       !.ok = (GetSize(s.pg[old_root]) = 0 /\ IsRootPage(s.pg[old_root]))],
             FALSE)
    ELSE IF GetSize(s.pg[old_root]) = 1
    THEN LET newRootId == ValueAt(s.pg[old_root], 0)
             s1 == UpdateRootPageId([s EXCEPT !.pg[old_root].arr = <<>>, !.root = newRootId],
                                    FALSE)
             s2 == FetchPage(s1, newRootId)
             s3 == [s2 EXCEPT !.pg[newRootId].parent = INVALID_PAGE_ID]
         IN  UnpinPage(s3, newRootId)
    ELSE s

\* the sibling FindLeftSibling latches, part_002:308-315
SiblingOf(pg, node) ==
    LET parent == pg[pg[node].parent]
        index == ValueIndex(parent, node)
    IN  ValueAt(parent, IF index = 0 THEN index + 1 ELSE index - 1)

\* BPlusTree::FindLeftSibling, part_002:306-320: the parent is fetched and unpinned, the
\* sibling is fetched, write-latched and added to the page set
FindLeftSibling(s, t, node) ==
    LET parentId == s.pg[node].parent
        sibling == SiblingOf(s.pg, node)
        s1 == FetchPage(s, parentId)
        s2 == LatchPage(FetchPage(s1, sibling), t, TRUE, sibling)
        s3 == [s2 EXCEPT !.ps = Append(@, sibling)]
    IN  UnpinPage(s3, parentId)

\* BPlusTree::Coalesce up to its recursive call, part_002:337-353: node gives everything
\* to neighbor_node, is marked for deletion and leaves the parent
Coalesce(s, neighbor_node, node, parentId, index) ==
    LET moved == IF IsLeafPage(s.pg[node]) THEN LeafMoveAllTo(s.pg, node, neighbor_node)
                 ELSE InternalMoveAllTo(s.pg, node, neighbor_node, index)
    IN  [s EXCEPT !.pg = [moved EXCEPT ![parentId] = InternalRemove(@, index)],
                  !.ds = @ \cup {node}]

\* whether CoalesceOrRedistribute merges node with its sibling, part_002:281
Fits(pg, node, node2) == GetSize(pg[node]) + GetSize(pg[node2]) <= GetMaxSize(pg[node])

\* whether Coalesce goes on with the parent, part_002:354
ParentUnderflows(page) == GetSize(page) <= GetMinSize(page)

\* one call of BPlusTree::CoalesceOrRedistribute for a node that is not the root,
\* part_002:276-300, without the recursive call inside Coalesce
CoalesceOrRedistribute(s, t, node) ==
    LET parentId == s.pg[node].parent
        node2 == SiblingOf(s.pg, node)
        isRightSib == ValueIndex(s.pg[parentId], node) = 0
        s1 == FetchPage(FindLeftSibling(s, t, node), parentId)
    IN  IF Fits(s1.pg, node, node2)
        THEN LET right == IF isRightSib THEN node2 ELSE node
                 left == IF isRightSib THEN node ELSE node2
                 removeIndex == ValueIndex(s1.pg[parentId], right)
             IN  UnpinPage(Coalesce(s1, left, right, parentId, removeIndex), parentId)
        ELSE UnpinPage(Redistribute(s1, node2, node, ValueIndex(s1.pg[parentId], node)),
                       parentId)

(***************************************************************************)
(* The calls of a worker thread.  pc of a worker: "idle" between calls,    *)
(* "new_tree" and "new_tree_locked" in Insert on an empty tree,            *)
(* "lock_root" before LockRootPageId in FindLeafPage, "crab" before        *)
(* CrabingProtocalFetchPage of page next, "leaf" with the leaf latched,    *)
(* "cor" before CoalesceOrRedistribute of page node, "free" before the     *)
(* last FreePagesInTransaction, "crashed" after a failed assert or a null  *)
(* dereference.                                                            *)
(***************************************************************************)
IdleWorker ==
    [pc |-> "idle", op |-> "NONE", key |-> 0, val |-> 0, txn |-> TRUE, leftMost |-> FALSE,
     next |-> INVALID_PAGE_ID, previous |-> INVALID_PAGE_ID, node |-> INVALID_PAGE_ID,
     ps |-> <<>>, ds |-> {}, cnt |-> 0, ret |-> "none", result |-> NoRid, index |-> 0,
     last |-> 0]

\* the step's result becomes the state; w is the worker's record but for its page set,
\* deleted-page set and rootLockedCnt, which are taken from s
Store(t, s, w) ==
    /\ pages' = s.pg
    /\ root_page_id_' = s.root
    /\ pin_count_' = s.pin
    /\ wlatch' = s.wl
    /\ rlatch' = s.rl
    /\ mutex_w' = s.mw
    /\ mutex_r' = s.mr
    /\ header_record' = s.hdr
    /\ wk' = [wk EXCEPT ![t] = [w EXCEPT !.ps = s.ps, !.ds = s.ds, !.cnt = s.cnt]]

\* a call begins: the number of calls a thread may still begin goes down when it is
\* limited (a negative number means no limit)
CallBegins(t) ==
    /\ wk[t].pc = "idle"
    /\ calls_left[t] # 0
    /\ calls_left' = [calls_left EXCEPT ![t] = IF @ > 0 THEN @ - 1 ELSE @]

IsExclusive(op) == op \in {"INSERT", "DELETE"}

\* the reference sorted map with unique keys: an insert of a key it holds changes
\* nothing, a remove of a key it does not hold changes nothing
RefInsert(m, k, v) == IF m[k] = NoRid THEN [m EXCEPT ![k] = v] ELSE m
RefRemove(m, k) == [m EXCEPT ![k] = NoRid]

\* BPlusTree::GetValue, part_002:41-46, up to LockRootPageId
GetValueCall(t, k, txn) ==
    /\ UNCHANGED notBT
    /\ CallBegins(t)
    /\ Store(t, Ctx(t), [IdleWorker EXCEPT !.pc = "lock_root", !.op = "READ", !.key = k,
                                           !.txn = txn])
    /\ UNCHANGED <<leaf_max_size, internal_max_size, ref_map>>

\* BPlusTree::Insert, part_002:70-85, up to LockRootPageId: IsEmpty() is read with no
\* latch held (line 74)
InsertCall(t, k, v) ==
    /\ UNCHANGED notBT
    /\ CallBegins(t)
    /\ Store(t, Ctx(t), [IdleWorker EXCEPT
                            !.pc = IF root_page_id_ = INVALID_PAGE_ID THEN "new_tree"
                                   ELSE "lock_root",
                            !.op = "INSERT", !.key = k, !.val = v])
    /\ UNCHANGED <<leaf_max_size, internal_max_size, ref_map>>

\* BPlusTree::Remove, part_002:239-243, up to LockRootPageId: on an empty tree it
\* returns at once (line 241, no latch held)
RemoveCall(t, k) ==
    /\ UNCHANGED notBT
    /\ CallBegins(t)
    /\ Store(t, Ctx(t), IF root_page_id_ = INVALID_PAGE_ID THEN IdleWorker
                        ELSE [IdleWorker EXCEPT !.pc = "lock_root", !.op = "DELETE", !.key = k])
    /\ UNCHANGED <<leaf_max_size, internal_max_size, ref_map>>

\* Insert line 76: LockRootPageId(true) returns
NewTreeLock(t) ==
    /\ UNCHANGED notBT
    /\ wk[t].pc = "new_tree"
    /\ CanLockRoot(Ctx(t), TRUE)
    /\ Store(t, LockRootPageId(Ctx(t), t, TRUE), [wk[t] EXCEPT !.pc = "new_tree_locked"])
    /\ UNCHANGED <<leaf_max_size, internal_max_size, ref_map, calls_left>>

\* Insert lines 77-79: StartNewTree, TryUnlockRootPageId(true), return true
NewTree(t) ==
    /\ UNCHANGED notBT
    /\ wk[t].pc = "new_tree_locked"
    /\ FreeIds(Ctx(t)) # {}
    /\ Store(t, TryUnlockRootPageId(StartNewTree(Ctx(t), wk[t].key, wk[t].val), t, TRUE),
             IdleWorker)
    /\ ref_map' = RefInsert(ref_map, wk[t].key, wk[t].val)
    /\ UNCHANGED <<leaf_max_size, internal_max_size, calls_left>>

\* FindLeafPage lines 473-479 on an empty tree: the root latch is taken and released
\* and nullptr is returned.  GetValue returns false (line 44); Begin makes the end
\* iterator (lines 437-439); InsertIntoLeaf (line 124) and Remove (line 244) call a
\* member of the null leaf.
LockRootEmpty(t) ==
    /\ UNCHANGED notBT
    /\ wk[t].pc = "lock_root"
    /\ root_page_id_ = INVALID_PAGE_ID
    /\ CanLockRoot(Ctx(t), IsExclusive(wk[t].op))
    /\ LET s == TryUnlockRootPageId(LockRootPageId(Ctx(t), t, IsExclusive(wk[t].op)), t,
                                    IsExclusive(wk[t].op))
       IN  Store(t, s, IF wk[t].op = "READ"
                       THEN [wk[t] EXCEPT !.pc = "return", !.ret = "false"]
                       ELSE IF wk[t].op = "ITER" THEN IdleWorker
                       ELSE [wk[t] EXCEPT !.pc = "crashed"])
    /\ UNCHANGED <<leaf_max_size, internal_max_size, ref_map, calls_left>>

\* FindLeafPage lines 473-482 on a tree with a root: the root latch is taken, the
\* descent starts at root_page_id_ with previous = -1
LockRoot(t) ==
    /\ UNCHANGED notBT
    /\ wk[t].pc = "lock_root"
    /\ root_page_id_ # INVALID_PAGE_ID
    /\ CanLockRoot(Ctx(t), IsExclusive(wk[t].op))
    /\ Store(t, LockRootPageId(Ctx(t), t, IsExclusive(wk[t].op)),
             [wk[t] EXCEPT !.pc = "crab", !.next = root_page_id_,
                           !.previous = INVALID_PAGE_ID])
    /\ UNCHANGED <<leaf_max_size, internal_max_size, ref_map, calls_left>>

\* a test that lets go of the ancestors under every child
ReleasesAncestorsAlways(page, op, previous) == previous > 0

\* the test of CrabingProtocalFetchPage line 519
ReleasesAncestors(page, op, previous) ==
    previous > 0 /\ (~IsExclusive(op) \/ IsSafe(page, op))

\* BPlusTree::CrabingProtocalFetchPage, part_002:513-527, and the step of the loop of
\* FindLeafPage that follows it (lines 486-500): page next is fetched and latched, the
\* ancestors are released when the test of line 519 says so, the page joins the page
\* set, and the child to descend to is chosen
Crab(t) ==
    /\ UNCHANGED notBT
    /\ wk[t].pc = "crab"
    /\ LET w == wk[t]
           p == w.next
           exclusive == IsExclusive(w.op)
           page == pages[p]
           s1 == LatchPage(FetchPage(Ctx(t), p), t, exclusive, p)
           s2 == IF ReleasesAncestors(page, w.op, w.previous)
                 THEN FreePagesInTransaction(s1, t, exclusive, w.txn, w.previous)
                 ELSE s1
           s3 == IF w.txn THEN [s2 EXCEPT !.ps = Append(@, p)] ELSE s2
       IN  /\ CanLatch(Ctx(t), exclusive, p)
           /\ Store(t, s3,
                    IF page.type = "FREE" \/ ~s3.ok THEN [w EXCEPT !.pc = "crashed"]
                    ELSE IF IsLeafPage(page) THEN [w EXCEPT !.pc = "leaf", !.node = p]
                    ELSE [w EXCEPT !.next = IF w.leftMost THEN ValueAt(page, 0)
                                            ELSE InternalLookup(page, w.key),
                                   !.previous = p])
    /\ UNCHANGED <<leaf_max_size, internal_max_size, ref_map, calls_left>>

\* GetValue lines 47-56 with the leaf latched: Lookup, FreePagesInTransaction; result
\* is the value found and ret tells whether there is one
GetValueLeaf(t) ==
    /\ UNCHANGED notBT
    /\ wk[t].pc = "leaf"
    /\ wk[t].op = "READ"
    /\ LET value == LeafLookup(pages[wk[t].node], wk[t].key)
       IN  Store(t, FreePagesInTransaction(Ctx(t), t, FALSE, wk[t].txn, wk[t].node),
                 [wk[t] EXCEPT !.pc = "return", !.result = value,
                               !.ret = IF value # NoRid THEN "true" ELSE "false"])
    /\ UNCHANGED <<leaf_max_size, internal_max_size, ref_map, calls_left>>

\* GetValue returns to its caller (line 44, line 56)
GetValueReturn(t) ==
    /\ UNCHANGED notBT
    /\ wk[t].pc = "return"
    /\ Store(t, Ctx(t), IdleWorker)
    /\ UNCHANGED <<leaf_max_size, internal_max_size, ref_map, calls_left>>

\* InsertIntoLeaf lines 124-140 with the leaf latched: a duplicate key changes nothing;
\* otherwise the pair is inserted and an overfull leaf is split
InsertLeaf(t) ==
    /\ UNCHANGED notBT
    /\ wk[t].pc = "leaf"
    /\ wk[t].op = "INSERT"
    /\ Cardinality(FreeIds(Ctx(t))) >= MaxNewPages
    /\ LET w == wk[t]
           leaf == w.node
           exist == LeafLookup(pages[leaf], w.key) # NoRid
           s1 == [Ctx(t) EXCEPT !.pg[leaf] = LeafInsert(@, w.key, w.val)]
           s2 == IF GetSize(s1.pg[leaf]) > GetMaxSize(s1.pg[leaf])
                 THEN LET newLeaf == NewPageId(s1)
                          s3 == Split(s1, t, leaf)
                      IN  InsertIntoParent(s3, t, leaf, KeyAt(s3.pg[newLeaf], 0), newLeaf)
                 ELSE s1
       IN  IF exist
           THEN Store(t, Ctx(t), [w EXCEPT !.pc = "free", !.ret = "false"])
           ELSE Store(t, s2, [w EXCEPT !.pc = "free", !.ret = "true"])
    /\ ref_map' = RefInsert(ref_map, wk[t].key, wk[t].val)
    /\ UNCHANGED <<leaf_max_size, internal_max_size, calls_left>>

\* Remove lines 244-248 with the leaf latched: the record is removed; a leaf left
\* under its minimum goes to CoalesceOrRedistribute
RemoveLeaf(t) ==
    /\ UNCHANGED notBT
    /\ wk[t].pc = "leaf"
    /\ wk[t].op = "DELETE"
    /\ LET w == wk[t]
           delTar == w.node
           s1 == [Ctx(t) EXCEPT !.pg[delTar] = RemoveAndDeleteRecord(@, w.key)]
       IN  Store(t, s1, [w EXCEPT !.pc = IF GetSize(s1.pg[delTar]) < GetMinSize(s1.pg[delTar])
                                         THEN "cor" ELSE "free"])
    /\ ref_map' = RefRemove(ref_map, wk[t].key)
    /\ UNCHANGED <<leaf_max_size, internal_max_size, calls_left>>

\* CoalesceOrRedistribute of the root, part_002:265-273: AdjustRoot
CoalesceOrRedistributeRoot(t) ==
    /\ UNCHANGED notBT
    /\ wk[t].pc = "cor"
    /\ IsRootPage(pages[wk[t].node])
    /\ LET node == wk[t].node
           s1 == AdjustRoot(Ctx(t), node)
           s2 == IF AdjustRootDeletes(pages[node]) THEN [s1 EXCEPT !.ds = @ \cup {node}] ELSE s1
       IN  Store(t, s2, [wk[t] EXCEPT !.pc = IF s2.ok THEN "free" ELSE "crashed"])
    /\ UNCHANGED <<leaf_max_size, internal_max_size, ref_map, calls_left>>

\* the slot of the parent FindLeftSibling reads is one of the parent's entries
SiblingInRange(pg, node) ==
    LET parent == pg[pg[node].parent]
        index == ValueIndex(parent, node)
    IN  (IF index = 0 THEN index + 1 ELSE index - 1) < GetSize(parent)

\* CoalesceOrRedistribute of another node, part_002:274-300 with Coalesce: the thread
\* waits for the sibling's write latch in FindLeftSibling; after a merge that leaves
\* the parent at or under its minimum it goes on with the parent (line 354-356).
\* When the node is the only child of its parent, FindLeftSibling reads the slot
\* after the parent's last entry (line 311-317): the call is followed no further
CoalesceOrRedistributeNode(t) ==
    /\ UNCHANGED notBT
    /\ wk[t].pc = "cor"
    /\ ~IsRootPage(pages[wk[t].node])
    /\ IF ~SiblingInRange(pages, wk[t].node)
       THEN Store(t, Ctx(t), [wk[t] EXCEPT !.pc = "crashed"])
       ELSE LET node == wk[t].node
                parentId == pages[node].parent
                node2 == SiblingOf(pages, node)
                s1 == CoalesceOrRedistribute(Ctx(t), t, node)
            IN  /\ CanLatch(Ctx(t), TRUE, node2)
                /\ Store(t, s1,
                         IF Fits(pages, node, node2) /\ ParentUnderflows(s1.pg[parentId])
                         THEN [wk[t] EXCEPT !.node = parentId]
                         ELSE [wk[t] EXCEPT !.pc = "free"])
    /\ UNCHANGED <<leaf_max_size, internal_max_size, ref_map, calls_left>>

\* the last FreePagesInTransaction(true, transaction) of InsertIntoLeaf (lines 129, 140)
\* and Remove (line 249), and the return
OpReturn(t) ==
    /\ UNCHANGED notBT
    /\ wk[t].pc = "free"
    /\ LET s == FreePagesInTransaction(Ctx(t), t, TRUE, TRUE, INVALID_PAGE_ID)
       IN  Store(t, s, IF s.ok THEN IdleWorker ELSE [wk[t] EXCEPT !.pc = "crashed"])
    /\ UNCHANGED <<leaf_max_size, internal_max_size, ref_map, calls_left>>

\* BPlusTree::Begin(), part_002:434-437, up to LockRootPageId in FindLeafPage, which
\* is called with leftMost, for a READ and with no transaction
IteratorBeginCall(t) ==
    /\ UNCHANGED notBT
    /\ CallBegins(t)
    /\ Store(t, Ctx(t), [IdleWorker EXCEPT !.pc = "lock_root", !.op = "ITER",
                                           !.leftMost = TRUE, !.txn = FALSE])
    /\ UNCHANGED <<leaf_max_size, internal_max_size, ref_map>>

\* BPlusTree::Begin(key), part_002:448-450, up to LockRootPageId in FindLeafPage, which
\* is called with the key, for a READ and with no transaction
IteratorBeginKeyCall(t, k) ==
    /\ UNCHANGED notBT
    /\ CallBegins(t)
    /\ Store(t, Ctx(t), [IdleWorker EXCEPT !.pc = "lock_root", !.op = "ITER", !.key = k,
                                           !.txn = FALSE])
    /\ UNCHANGED <<leaf_max_size, internal_max_size, ref_map>>

\* Begin lines 438-439 and 451-457 with the leaf read-latched and pinned: the tree-root
\* latch is released if this thread still holds it; the iterator stands at index 0 of
\* the leftmost leaf, or at KeyIndex(key) of the leaf the descent for key reached
IteratorBegin(t) ==
    /\ UNCHANGED notBT
    /\ wk[t].pc = "leaf"
    /\ wk[t].op = "ITER"
    /\ Store(t, TryUnlockRootPageId(Ctx(t), t, FALSE),
             [wk[t] EXCEPT !.pc = "iter",
                           !.index = IF wk[t].leftMost THEN 0
                                     ELSE KeyIndex(pages[wk[t].node], wk[t].key)])
    /\ UNCHANGED <<leaf_max_size, internal_max_size, ref_map, calls_left>>

\* a release of the leaf that unpins once: the fetch of the release stays pinned
UnlockAndUnPinOnce(s, t, leaf) ==
    UnpinPage(UnlatchPage(FetchPage(s, leaf), t, FALSE, leaf), leaf)

\* IndexIterator::UnlockAndUnPin, index_iterator.h:56-61: one fetch, the read latch
\* released, two unpins
UnlockAndUnPin(s, t, leaf) ==
    UnpinPage(UnpinPage(UnlatchPage(FetchPage(s, leaf), t, FALSE, leaf), leaf), leaf)

\* One turn of the loop of a scan, while (!isEnd()) { *it; ++it; }.
\* IndexIterator::operator*, index_iterator.h:27-30: GetItem(index_) asserts that the
\* index is one of the leaf's pairs (part_002:1123); last is the key of the pair read.
\* IndexIterator::operator++, index_iterator.h:32-45: past the last pair of the leaf the
\* leaf is released; with no next leaf the iterator is at its end, else the next leaf
\* is fetched and the thread asks for its read latch
IteratorAdvance(t) ==
    /\ UNCHANGED notBT
    /\ wk[t].pc = "iter"
    /\ LET leaf == wk[t].node
           next == pages[leaf].next
           inRange == wk[t].index < GetSize(pages[leaf])
           w == [wk[t] EXCEPT !.last = IF inRange THEN KeyAt(pages[leaf], wk[t].index) ELSE @]
       IN  IF ~inRange
           THEN Store(t, Ctx(t), [w EXCEPT !.pc = "crashed"])
           ELSE IF w.index + 1 < GetSize(pages[leaf])
           THEN Store(t, Ctx(t), [w EXCEPT !.index = @ + 1])
           ELSE IF next = INVALID_PAGE_ID
           THEN Store(t, UnlockAndUnPin(Ctx(t), t, leaf), IdleWorker)
           ELSE Store(t, FetchPage(UnlockAndUnPin(Ctx(t), t, leaf), next),
                      [w EXCEPT !.pc = "iter_latch", !.next = next])
    /\ UNCHANGED <<leaf_max_size, internal_max_size, ref_map, calls_left>>

\* operator++, index_iterator.h:46-49: RLatch of the next leaf returns
IteratorLatch(t) ==
    /\ UNCHANGED notBT
    /\ wk[t].pc = "iter_latch"
    /\ CanLatch(Ctx(t), FALSE, wk[t].next)
    /\ Store(t, LatchPage(Ctx(t), t, FALSE, wk[t].next),
             [wk[t] EXCEPT !.pc = "iter", !.node = wk[t].next, !.index = 0])
    /\ UNCHANGED <<leaf_max_size, internal_max_size, ref_map, calls_left>>

\* an empty tree in an empty buffer pool; the page and slot sizes give one of the
\* pairs of maximum sizes of Sizes
InitTree ==
    /\ pages = [p \in PageIds |-> FreePage]
    /\ root_page_id_ = INVALID_PAGE_ID
    /\ pin_count_ = [p \in PageIds |-> 0]
    /\ wlatch = [p \in PageIds |-> 0]
    /\ rlatch = [p \in PageIds |-> {}]
    /\ mutex_w = 0
    /\ mutex_r = {}
    /\ wk = [t \in Workers |-> IdleWorker]
    /\ ref_map = [k \in Keys |-> NoRid]
    /\ header_record = NoRecord

\* the one value these variables keep in the specifications of the other components
InitTreeIdle ==
    /\ InitTree
    /\ leaf_max_size = 3
    /\ internal_max_size = 3
    /\ calls_left = [t \in Workers |-> 0]

\* one thread calls GetValue, Insert and Remove one after the other
NextTreeSeq ==
    \/ \E k \in Keys, txn \in BOOLEAN : GetValueCall(1, k, txn)
    \/ \E k \in Keys : \E v \in RidsOf(k) : InsertCall(1, k, v)
    \/ \E k \in Keys : RemoveCall(1, k)
    \/ NewTreeLock(1)
    \/ NewTree(1)
    \/ LockRootEmpty(1)
    \/ LockRoot(1)
    \/ Crab(1)
    \/ GetValueLeaf(1)
    \/ GetValueReturn(1)
    \/ InsertLeaf(1)
    \/ RemoveLeaf(1)
    \/ CoalesceOrRedistributeRoot(1)
    \/ CoalesceOrRedistributeNode(1)
    \/ OpReturn(1)

\* the next step of a call of thread t that is under way
WorkerStep(t) ==
    \/ NewTreeLock(t)
    \/ NewTree(t)
    \/ LockRootEmpty(t)
    \/ LockRoot(t)
    \/ Crab(t)
    \/ GetValueLeaf(t)
    \/ GetValueReturn(t)
    \/ InsertLeaf(t)
    \/ RemoveLeaf(t)
    \/ CoalesceOrRedistributeRoot(t)
    \/ CoalesceOrRedistributeNode(t)
    \/ OpReturn(t)
    \/ IteratorBegin(t)
    \/ IteratorAdvance(t)
    \/ IteratorLatch(t)

\* the tree is built by thread 1 alone, which inserts the keys in ascending order
Building == calls_left[1] < 0

BuildInsert ==
    /\ Building
    /\ \E k \in Keys :
          /\ k = 1 + Cardinality({j \in Keys : ref_map[j] # NoRid})
          /\ InsertCall(1, k, 1 + (k % NumTreeRids))

\* the threads are started on the tree built so far: each makes one call
StartThreads ==
    /\ UNCHANGED notBT
    /\ Building
    /\ \A t \in Workers : wk[t].pc = "idle"
    /\ calls_left' = [t \in Workers |-> 1]
    /\ UNCHANGED <<pages, root_page_id_, pin_count_, wlatch, rlatch, mutex_w, mutex_r, wk,
                   leaf_max_size, internal_max_size, ref_map, header_record>>

\* the threads call GetValue, Insert, Remove and Begin with operator++ at the same time
NextTreeConc ==
    \/ BuildInsert
    \/ StartThreads
    \/ \E t \in Workers, k \in Keys, txn \in BOOLEAN : ~Building /\ GetValueCall(t, k, txn)
    \/ \E t \in Workers, k \in Keys : \E v \in RidsOf(k) : ~Building /\ InsertCall(t, k, v)
    \/ \E t \in Workers, k \in Keys : ~Building /\ RemoveCall(t, k)
    \/ \E t \in Workers : ~Building /\ IteratorBeginCall(t)
    \/ \E t \in Workers : WorkerStep(t)

\* the tree is built by thread 1 alone, which inserts the keys in descending order
BuildInsertDescending ==
    /\ calls_left[1] = -2
    /\ \E k \in Keys :
          /\ k = NumKeys - Cardinality({j \in Keys : ref_map[j] # NoRid})
          /\ InsertCall(1, k, 1 + (k % NumTreeRids))

\* thread 1 scans the tree from Begin() or Begin(key) to the end while thread 2 calls
\* GetValue, Insert or Remove
NextTreeScan ==
    \/ calls_left[1] = -1 /\ BuildInsert
    \/ BuildInsertDescending
    \/ StartThreads
    \/ ~Building /\ IteratorBeginCall(1)
    \/ \E k \in Keys : ~Building /\ IteratorBeginKeyCall(1, k)
    \/ \E k \in Keys, txn \in BOOLEAN : ~Building /\ GetValueCall(2, k, txn)
    \/ \E k \in Keys : \E v \in RidsOf(k) : ~Building /\ InsertCall(2, k, v)
    \/ \E k \in Keys : ~Building /\ RemoveCall(2, k)
    \/ \E t \in Workers : WorkerStep(t)

\* the keys of scenario S1 in the order of their inserts; the tree holds a key as its
\* rank among them, which is all the comparator sees
S1Keys == <<5, 9, 1, 3, 7, 4>>
S1Rank(x) == Cardinality({i \in 1..Len(S1Keys) : S1Keys[i] <= x})

\* the next Insert of scenario S1
S1Insert ==
    \E i \in 1..Len(S1Keys) :
        /\ i = 1 + Cardinality({j \in Keys : ref_map[j] # NoRid})
        /\ InsertCall(1, S1Rank(S1Keys[i]), 1 + (S1Rank(S1Keys[i]) % NumTreeRids))

\* one thread makes the inserts of scenario S1 and calls GetValue between them
NextTreeS1 ==
    \/ S1Insert
    \/ \E k \in Keys, txn \in BOOLEAN : GetValueCall(1, k, txn)
    \/ NewTreeLock(1)
    \/ NewTree(1)
    \/ LockRootEmpty(1)
    \/ LockRoot(1)
    \/ Crab(1)
    \/ GetValueLeaf(1)
    \/ GetValueReturn(1)
    \/ InsertLeaf(1)
    \/ OpReturn(1)

-----------------------------------------------------------------------------
(***************************************************************************)
(* Log recovery (src/unnamed/part_002:788-1035 = log_recovery.cpp).  The   *)
(* log file is what transactions wrote before the crash; the table page is *)
(* what the disk holds of it.  LogRecord, TablePage and DiskManager are    *)
(* outside src/; they are modelled as sections 3, 4.5 and 6 of the         *)
(* specification give them.  Sizes and offsets are counted in units of     *)
(* LogRecord::HEADER_SIZE.  The logs hold no NEWPAGE record: the table has *)
(* one page, which exists before the first record.                         *)
(***************************************************************************)
\* the LSN no record has: prev_lsn of a BEGIN record, the LSN of a page never written
INVALID_LSN == -1

\* LogRecord::size_: the header, and with it a RID and one tuple, or a RID and two
RecordSize(type) ==
    IF type \in {"BEGIN", "COMMIT", "ABORT"} THEN 1 ELSE IF type = "UPDATE" THEN 3 ELSE 2

\* the offset in the log file of its i-th record (the file's size for i = Len + 1)
RECURSIVE OffsetOf(_, _)
OffsetOf(log, i) == IF i <= 1 THEN 0 ELSE OffsetOf(log, i - 1) + log[i - 1].size_

\* std::unordered_map: operator[] with an assignment, and erase
MapPut(f, k, v) == [x \in DOMAIN f \cup {k} |-> IF x = k THEN v ELSE f[x]]

\* an erase that removes nothing
MapEraseNone(f, k) == f

MapErase(f, k) == [x \in DOMAIN f \ {k} |-> f[x]]

\* TablePage::InsertTuple and TablePage::MarkDelete on the slot of the record's RID
InsertTupleSlot(slot, tuple) == [val |-> tuple, deleted |-> FALSE]
MarkDeleteSlot(slot) == [slot EXCEPT !.deleted = TRUE]

\* a replay that applies UPDATE with the before-image
RedoSlotOld(slot, log) ==
    IF log.type = "INSERT" THEN InsertTupleSlot(slot, log.new_tuple_)
    ELSE IF log.type = "UPDATE" THEN UpdateTupleSlot(slot, log.old_tuple_)
    ELSE IF log.type = "MARKDELETE" THEN MarkDeleteSlot(slot)
    ELSE IF log.type = "APPLYDELETE" THEN ApplyDeleteSlot(slot)
    ELSE RollbackDeleteSlot(slot)

\* the operation Redo replays for a tuple-level record, part_002:924-944; it is the
\* operation the transaction did when it wrote the record
RedoSlot(slot, log) ==
    IF log.type = "INSERT" THEN InsertTupleSlot(slot, log.new_tuple_)
    ELSE IF log.type = "UPDATE" THEN UpdateTupleSlot(slot, log.new_tuple_)
    ELSE IF log.type = "MARKDELETE" THEN MarkDeleteSlot(slot)
    ELSE IF log.type = "APPLYDELETE" THEN ApplyDeleteSlot(slot)
    ELSE RollbackDeleteSlot(slot)

\* the inverse Undo applies for a tuple-level record, part_002:1001-1024
UndoSlot(slot, log) ==
    IF log.type = "INSERT" THEN ApplyDeleteSlot(slot)
    ELSE IF log.type = "UPDATE" THEN UpdateTupleSlot(slot, log.old_tuple_)
    ELSE IF log.type = "MARKDELETE" THEN RollbackDeleteSlot(slot)
    ELSE IF log.type = "APPLYDELETE" THEN InsertTupleSlot(slot, log.old_tuple_)
    ELSE MarkDeleteSlot(slot)

\* the table page after the tuple-level records of log with an LSN up to lsn, less
\* the records of the transactions of skip
RECURSIVE Replay(_, _, _, _)
Replay(log, i, lsn, skip) ==
    IF i = 0 THEN [r \in Rids |-> FreeSlot]
    ELSE LET before == Replay(log, i - 1, lsn, skip)
             rec == log[i]
         IN  IF rec.rid = 0 \/ rec.lsn_ > lsn \/ rec.txn_id_ \in skip THEN before
             ELSE [before EXCEPT ![rec.rid] = RedoSlot(@, rec)]

\* the transactions with a BEGIN record and no COMMIT or ABORT record
Unfinished_(log) ==
    {t \in 1..MaxLogTxn :
        /\ \E i \in 1..Len(log) : log[i].txn_id_ = t
        /\ \A i \in 1..Len(log) : log[i].txn_id_ = t => log[i].type \notin {"COMMIT", "ABORT"}}

\* a transaction appends a record to the log (LogManager::AppendLogRecord, called by
\* TransactionManager and TablePage): transaction ids and LSNs go up one by one, a
\* transaction writes between its BEGIN and its COMMIT or ABORT, a tuple that an
\* unfinished transaction has written is locked for the others, a COMMIT comes after
\* the transaction's deletes are applied, an ABORT after its writes are rolled back
\* (a delete by ROLLBACKDELETE, an insert by APPLYDELETE, an update by an UPDATE)
AppendLogRecord(t, type, r, tuple) ==
    LET log == log_file
        table == Replay(log, Len(log), Len(log), {})
        mine == {i \in 1..Len(log) : log[i].txn_id_ = t}
        prev == IF mine = {} THEN INVALID_LSN
                ELSE log[CHOOSE i \in mine : \A j \in mine : j <= i].lsn_
        old == IF r = 0 THEN 0 ELSE table[r].val
        live == table[r] # FreeSlot /\ ~table[r].deleted
        pending == {q \in Rids : table[q].deleted /\ \E i \in mine : log[i].rid = q}
    IN  /\ UNCHANGED notRC
        /\ rc.pc = "logging"
        /\ Len(log) < MaxLog
        /\ IF type = "BEGIN"
           THEN mine = {} /\ \A u \in 1..MaxLogTxn : (u < t) = (\E i \in 1..Len(log) : log[i].txn_id_ = u)
           ELSE t \in Unfinished_(log)
        /\ (r = 0) = (type \in {"BEGIN", "COMMIT", "ABORT"})
        /\ r # 0 => \A i \in 1..Len(log) :
                        (log[i].rid = r /\ log[i].txn_id_ # t) => log[i].txn_id_ \notin Unfinished_(log)
        /\ type = "INSERT" => table[r] = FreeSlot
        /\ type \in {"UPDATE", "MARKDELETE"} => live
        /\ type = "ROLLBACKDELETE" => table[r].deleted
        /\ type = "APPLYDELETE" =>
              \/ table[r].deleted
              \/ live /\ \E i \in mine : log[i].rid = r /\ log[i].type = "INSERT"
        /\ (type \in {"INSERT", "UPDATE"}) = (tuple # 0)
        /\ type = "COMMIT" => pending = {}
        /\ type = "ABORT" => table = Replay(log, Len(log), Len(log), {t})
        /\ log_file' = Append(log, [lsn_ |-> Len(log), size_ |-> RecordSize(type), txn_id_ |-> t,
                                    prev_lsn_ |-> prev, type |-> type, rid |-> r,
                                    old_tuple_ |-> old, new_tuple_ |-> tuple])
        /\ UNCHANGED <<tpage, page_lsn, active_txn_, lsn_mapping_, rc>>

\* the crash: the disk holds the table page as one flush left it, with the effects of
\* the records up to its LSN (disk_lsn keeps that LSN, the page in the buffer pool is
\* stamped anew by Redo); recovery starts with Redo, part_002:853-861
Crash(lsn) ==
    /\ UNCHANGED notRC
    /\ rc.pc = "logging"
    /\ lsn = INVALID_LSN \/ \E i \in 1..Len(log_file) : log_file[i].lsn_ = lsn /\ log_file[i].rid # 0
    /\ tpage' = Replay(log_file, Len(log_file), lsn, {})
    /\ page_lsn' = lsn
    /\ rc' = [rc EXCEPT !.pc = "redo_read", !.disk_lsn = lsn]
    /\ UNCHANGED <<log_file, active_txn_, lsn_mapping_>>

\* a guard that lets every record through
NeedRedoAlways(lsn, page) == TRUE

\* bool needRedo = log.lsn_ > page->GetLSN(), part_002:921
NeedRedo(lsn, page) == lsn > page

\* the offset Redo notes for the record it deserialized at bufferOffset, part_002:871
RecordOffset(temp, start, bufferOffset) == temp + bufferOffset

\* LogRecovery::Redo, part_002:853-952, one step: a call of ReadLog (line 865-869) or
\* one turn of the inner loop (lines 870-946) or its end (lines 947-951).  start is the
\* offset in the file of the byte at log_buffer_[0]: the bytes kept from the read before
\* come first.  ReadLog returns false at the end of the file and fills with zeros what
\* the file does not have.
RedoStep ==
    /\ UNCHANGED notRC
    /\ rc.pc \in {"redo_read", "redo_rec"}
    /\ LET size == OffsetOf(log_file, Len(log_file) + 1)
           at == rc.start + rc.bufferOffset
           found == {i \in 1..Len(log_file) :
                        /\ OffsetOf(log_file, i) = at
                        /\ rc.bufferOffset + 1 <= LOG_BUFFER_SIZE
                        /\ rc.bufferOffset + log_file[i].size_ <= LOG_BUFFER_SIZE}
       IN  IF rc.pc = "redo_read"
           THEN /\ rc' = IF rc.offset_ >= size
                         THEN [rc EXCEPT !.pc = "redone", !.todo = DOMAIN active_txn_]
                         ELSE [rc EXCEPT !.pc = "redo_rec", !.temp = rc.offset_,
                                         !.start = rc.offset_ - rc.bufferOffset,
                                         !.offset_ = @ + LOG_BUFFER_SIZE - rc.bufferOffset,
                                         !.bufferOffset = 0]
                /\ UNCHANGED <<tpage, page_lsn, active_txn_, lsn_mapping_>>
           ELSE IF found = {}
           THEN /\ rc' = [rc EXCEPT !.pc = "redo_read",
                                    !.bufferOffset = LOG_BUFFER_SIZE - rc.bufferOffset]
                /\ UNCHANGED <<tpage, page_lsn, active_txn_, lsn_mapping_>>
           ELSE LET log == log_file[CHOOSE i \in found : TRUE]
                    needRedo == log.rid # 0 /\ NeedRedo(log.lsn_, page_lsn)
                IN  /\ lsn_mapping_' = MapPut(lsn_mapping_, log.lsn_,
                                              RecordOffset(rc.temp, rc.start, rc.bufferOffset))
                    /\ active_txn_' = IF log.type \in {"COMMIT", "ABORT"}
                                      THEN MapErase(active_txn_, log.txn_id_)
                                      ELSE MapPut(active_txn_, log.txn_id_, log.lsn_)
                    /\ rc' = [rc EXCEPT !.bufferOffset = @ + log.size_]
                    /\ tpage' = IF needRedo THEN [tpage EXCEPT ![log.rid] = RedoSlot(@, log)]
                                ELSE tpage
                    /\ page_lsn' = IF needRedo THEN log.lsn_ ELSE page_lsn
    /\ UNCHANGED log_file

\* LogRecovery::Undo, part_002:958-1032, one step: the loop goes to the next
\* transaction of active_txn_ (any order), or one record is read at the offset
\* lsn_mapping_ gives and its inverse is applied, or the maps are cleared at the end
\* (lines 1029-1030).  A failed assert ends recovery.
UndoStep ==
    /\ UNCHANGED notRC
    /\ rc.pc \in {"redone", "undo"}
    /\ IF rc.lsn = INVALID_LSN
       THEN IF rc.todo = {}
            THEN /\ active_txn_' = << >>
                 /\ lsn_mapping_' = << >>
                 /\ rc' = [rc EXCEPT !.pc = "done"]
                 /\ UNCHANGED <<tpage, page_lsn>>
            ELSE \E t \in rc.todo :
                    /\ rc' = [rc EXCEPT !.pc = "undo", !.lsn = active_txn_[t], !.todo = @ \ {t}]
                    /\ UNCHANGED <<tpage, page_lsn, active_txn_, lsn_mapping_>>
       ELSE LET offset == IF rc.lsn \in DOMAIN lsn_mapping_ THEN lsn_mapping_[rc.lsn] ELSE 0
                found == {i \in 1..Len(log_file) : OffsetOf(log_file, i) = offset}
                log == log_file[CHOOSE i \in found : TRUE]
                ok == /\ found # {}
                      /\ log.lsn_ = rc.lsn
                      /\ log.type \notin {"COMMIT", "ABORT"}
                      /\ log.rid # 0 => page_lsn >= log.lsn_
                      /\ log.type = "UPDATE" => tpage[log.rid].val = log.new_tuple_
            IN  /\ rc' = IF ok THEN [rc EXCEPT !.pc = "undo", !.lsn = log.prev_lsn_]
                         ELSE [rc EXCEPT !.pc = "crashed"]
                /\ tpage' = IF ok /\ log.rid # 0 THEN [tpage EXCEPT ![log.rid] = UndoSlot(@, log)]
                            ELSE tpage
                /\ lsn_mapping_' = IF rc.lsn \in DOMAIN lsn_mapping_ THEN lsn_mapping_
                                   ELSE MapPut(lsn_mapping_, rc.lsn, 0)
                /\ UNCHANGED <<page_lsn, active_txn_>>
    /\ UNCHANGED log_file

\* recovery is run again over the same log and the pages the run before left
RecoverAgain ==
    /\ UNCHANGED notRC
    /\ rc.pc = "done"
    /\ rc.run = 1
    /\ rc' = [rc EXCEPT !.pc = "redo_read", !.run = 2, !.saved = tpage, !.offset_ = 0,
                        !.bufferOffset = 0, !.temp = 0, !.start = 0]
    /\ UNCHANGED <<log_file, tpage, page_lsn, active_txn_, lsn_mapping_>>

\* before the first record: an empty log, an empty table page, empty maps
InitRec ==
    /\ log_file = << >>
    /\ tpage = [r \in Rids |-> FreeSlot]
    /\ page_lsn = INVALID_LSN
    /\ active_txn_ = << >>
    /\ lsn_mapping_ = << >>
    /\ rc = [pc |-> "logging", offset_ |-> 0, bufferOffset |-> 0, temp |-> 0, start |-> 0,
             todo |-> {}, lsn |-> INVALID_LSN, run |-> 1, saved |-> << >>, disk_lsn |-> INVALID_LSN]

\* transactions write the log, the system crashes, recovery runs Redo and Undo, once or
\* twice
NextRec ==
    \/ \E t \in 1..MaxLogTxn, r \in Rids \cup {0}, tuple \in Vals \cup {0} :
          \E type \in {"BEGIN", "COMMIT", "ABORT", "INSERT", "UPDATE", "MARKDELETE",
                       "APPLYDELETE", "ROLLBACKDELETE"} : AppendLogRecord(t, type, r, tuple)
    \/ \E lsn \in INVALID_LSN..(MaxLog - 1) : Crash(lsn)
    \/ RedoStep
    \/ UndoStep
    \/ RecoverAgain

-----------------------------------------------------------------------------
\* the lock manager is built strict or not (lock_manager.h:99); two configurations
\* are explored: strict 2PL with logging enabled, and non-strict 2PL with logging off
InitLM ==
    /\ strict_2PL_ \in BOOLEAN
    /\ enable_logging = strict_2PL_
    /\ lockTable_ = [r \in Rids |-> EmptyTxList]
    /\ next_txn_id_ = 1
    /\ state = [t \in TxnIds |-> "GROWING"]
    /\ sharedSet = [t \in TxnIds |-> {}]
    /\ exclSet = [t \in TxnIds |-> {}]
    /\ writeSet = [t \in TxnIds |-> <<>>]
    /\ lastLog = [t \in TxnIds |-> "NONE"]
    /\ flushed = [t \in TxnIds |-> FALSE]
    /\ pc = [t \in TxnIds |-> "none"]
    /\ req = [t \in TxnIds |-> NoRequest]
    /\ lock_set = [t \in TxnIds |-> {}]

Init == InitRW /\ InitLM /\ InitUndoIdle /\ InitTreeIdle /\ InitRec

\* the calls of transactions that lock, unlock, commit and abort
NextLM ==
    \/ Begin
    \/ \E t \in TxnIds, r \in Rids : LockShared(t, r)
    \/ \E t \in TxnIds, r \in Rids : LockExclusive(t, r)
    \/ \E t \in TxnIds, r \in Rids : LockUpgrade(t, r)
    \/ \E t \in TxnIds : Resume(t)
    \/ \E t \in TxnIds, r \in Rids : UserUnlock(t, r)
    \/ \E t \in TxnIds : Commit(t)
    \/ \E t \in TxnIds : Abort(t)
    \/ \E t \in TxnIds : FlushReturn(t)
    \/ \E t \in TxnIds, r \in Rids : ReleaseStep(t, r)

\* the writes of the table heap and their part of Commit and Abort
NextHeap ==
    \/ \E t \in TxnIds, r \in Rids, w \in {"INSERT", "DELETE", "UPDATE"} : Write(t, r, w)
    \/ \E t \in TxnIds : DrainStep(t)

\* the lock manager under transactions that write nothing
SpecLM == Init /\ [][NextLM]_vars

\* the calls of NextLM, and calls on transactions that have ended
NextLate ==
    \/ NextLM
    \/ \E t \in TxnIds, r \in Rids, mode \in {"SHARED", "EXCLUSIVE", "UPGRADING"} :
          \E ret \in Rets : LateLockCall(t, r, mode, ret)
    \/ \E t \in TxnIds : LateEnd(t, "COMMITTED")
    \/ \E t \in TxnIds : LateEnd(t, "ABORTED")

SpecLate == Init /\ [][NextLate]_vars

\* the RID the transactions of SpecLive lock: with one RID no transaction that holds a
\* granted lock waits for another
LiveRid == 1

\* transactions that lock one RID, upgrade, and commit or abort
NextLive ==
    \/ Begin
    \/ \E t \in TxnIds : LockShared(t, LiveRid)
    \/ \E t \in TxnIds : LockExclusive(t, LiveRid)
    \/ \E t \in TxnIds : LockUpgrade(t, LiveRid)
    \/ \E t \in TxnIds : Resume(t)
    \/ \E t \in TxnIds : Commit(t)
    \/ \E t \in TxnIds : Abort(t)
    \/ \E t \in TxnIds : FlushReturn(t)
    \/ \E t \in TxnIds : ReleaseStep(t, LiveRid)

\* every transaction whose thread is not waiting for a lock commits or aborts in the
\* end, the log flush returns, the release loop goes on, and a thread whose item is
\* granted (TxItem::Grant notifies its condition variable) returns from TxItem::Wait
FairLive ==
    \A t \in TxnIds :
        /\ WF_vars(Commit(t) \/ Abort(t))
        /\ WF_vars(FlushReturn(t))
        /\ WF_vars(ReleaseStep(t, LiveRid))
        /\ WF_vars(Resume(t))

SpecLive == Init /\ [][NextLive]_vars /\ FairLive

\* the lock manager and the transaction manager
Next == NextLM \/ NextHeap

Spec == Init /\ [][Next]_vars

\* one RWMutex used by NumThreads threads
NextRW == NextRWMutex

\* the variables of the other components are fixed at one of their initial values
InitRWOnly == Init /\ strict_2PL_ /\ enable_logging

SpecRW == InitRWOnly /\ [][NextRW]_vars

\* every holder calls its unlock in the end, and a thread that was notified (or
\* woke up by itself) takes mutex_ again and tests its loop
FairRW ==
    \A t \in Threads :
        /\ WF_vars(WUnlock(t))
        /\ WF_vars(RUnlock(t))
        /\ WF_vars(WLockWake1(t))
        /\ WF_vars(WLockWake2(t))
        /\ WF_vars(RLockWake(t))

SpecRWLive == InitRWOnly /\ [][NextRW]_vars /\ FairRW

\* one transaction that writes tuples and is aborted
InitUndoOnly ==
    InitRW /\ InitLM /\ strict_2PL_ /\ enable_logging /\ InitUndo /\ InitTreeIdle /\ InitRec

SpecUndo == InitUndoOnly /\ [][NextUndo]_vars

\* the pairs (leaf max_size, internal max_size) explored
Sizes == {<<2, 3>>, <<3, 3>>, <<2, 4>>}

\* one thread working on one B+ tree, from the empty tree
InitTreeSeq ==
    /\ InitRW /\ InitLM /\ strict_2PL_ /\ enable_logging /\ InitUndoIdle /\ InitRec
    /\ InitTree
    /\ \E sz \in Sizes : leaf_max_size = sz[1] /\ internal_max_size = sz[2]
    /\ calls_left = [t \in Workers |-> IF t = 1 THEN -1 ELSE 0]

SpecTreeSeq == InitTreeSeq /\ [][NextTreeSeq]_vars

\* NumWorkers threads working on one B+ tree that thread 1 has built
SpecTreeConc == InitTreeSeq /\ [][NextTreeConc]_vars

\* a scan and a call of another thread on one B+ tree that thread 1 has built, by
\* inserts in ascending order (calls_left[1] = -1) or in descending order (-2)
InitTreeScan ==
    /\ InitRW /\ InitLM /\ strict_2PL_ /\ enable_logging /\ InitUndoIdle /\ InitRec
    /\ InitTree
    /\ \E sz \in Sizes : leaf_max_size = sz[1] /\ internal_max_size = sz[2]
    /\ \E order \in {-1, -2} : calls_left = [t \in Workers |-> IF t = 1 THEN order ELSE 0]

SpecTreeScan == InitTreeScan /\ [][NextTreeScan]_vars

\* scenario S1: an empty tree with leaf and internal max_size 3
InitTreeS1 == InitTreeSeq /\ leaf_max_size = 3 /\ internal_max_size = 3

SpecTreeS1 == InitTreeS1 /\ [][NextTreeS1]_vars

\* recovery after a crash; the variables of the other components are fixed
SpecRec == InitRWOnly /\ [][NextRec]_vars

-----------------------------------------------------------------------------
(***************************************************************************)
(* Properties of RWMutex (specification SpecRW).                           *)
(***************************************************************************)
Writers == {t \in Threads : rw_pc[t] = "writing"}
Readers == {t \in Threads : rw_pc[t] = "reading"}

\* C1: at most one thread is between a returned WLock and its WUnlock, and while there
\* is one, no thread is between a returned RLock and its RUnlock and reader_count_ = 0.
C1_MutualExclusion ==
    /\ Cardinality(Writers) <= 1
    /\ Writers # {} => (Readers = {} /\ reader_count_ = 0)

\* a writer holds the latch while a reader and another writer that asked for it wait
C1_Witness ==
    /\ Writers # {}
    /\ \E t \in Threads : rw_pc[t] = "R_wait"
    /\ \E t \in Threads : rw_pc[t] = "W_wait1"

-----------------------------------------------------------------------------
(***************************************************************************)
(* Properties of the lock manager (specification SpecLM) and of the        *)
(* transaction manager (specification Spec).                               *)
(***************************************************************************)
Modes == {"SHARED", "EXCLUSIVE", "UPGRADING"}

\* transaction t has an item in the queue of r in lock table tbl
HasEntry(tbl, t, r) == \E i \in 1..Len(tbl[r].locks) : tbl[r].locks[i].tid = t

\* transaction t has a granted item of one of the modes in the queue of r
GrantedEntry(tbl, t, r, modes) ==
    \E i \in 1..Len(tbl[r].locks) :
        /\ tbl[r].locks[i].tid = t
        /\ tbl[r].locks[i].granted
        /\ tbl[r].locks[i].mode \in modes

GrantedAt(r) == {i \in 1..Len(lockTable_[r].locks) : lockTable_[r].locks[i].granted}

\* C2: in every queue the granted items are a prefix, and they are either all SHARED or
\* a single EXCLUSIVE item at the head.
C2_GrantedPrefixCompatible ==
    \A r \in Rids :
        /\ \A i \in GrantedAt(r) : \A j \in 1..(i - 1) : j \in GrantedAt(r)
        /\ \/ \A i \in GrantedAt(r) : lockTable_[r].locks[i].mode = "SHARED"
           \/ /\ GrantedAt(r) = {1}
              /\ lockTable_[r].locks[1].mode = "EXCLUSIVE"

\* C3: when a lock call of transaction t blocks on r, the queue of r (where t's new item
\* is the last) holds no item of a transaction with a smaller id.
C3_WaitDieOrdering ==
    [][\A t \in TxnIds, r \in Rids, mode \in Modes :
          LockCall(t, r, mode, "blocked") =>
              \A i \in 1..Len(lockTable_'[r].locks) : lockTable_'[r].locks[i].tid >= t]_vars

\* a waits for b: a has a waiting item in a queue where b has a granted item or an item
\* ahead of a's
WaitsFor(a, b) ==
    /\ a # b
    /\ \E r \in Rids : \E i, j \in 1..Len(lockTable_[r].locks) :
          /\ lockTable_[r].locks[j].tid = a
          /\ ~lockTable_[r].locks[j].granted
          /\ lockTable_[r].locks[i].tid = b
          /\ (lockTable_[r].locks[i].granted \/ i < j)

\* C4: when locks are released only by committed or aborted transactions (strict 2PL),
\* there is no non-empty set of transactions each of which waits for another of the set.
C4_NoWaitsForCycle ==
    strict_2PL_ =>
        ~ \E D \in SUBSET TxnIds :
              /\ D # {}
              /\ \A a \in D : \E b \in D : WaitsFor(a, b)

\* the lock set and the granted item a lock call of the mode leaves when it returns true
OwnsAfter(t, r, mode) ==
    IF mode = "SHARED"
    THEN /\ GrantedEntry(lockTable_', t, r, {"SHARED"})
         /\ r \in sharedSet'[t]
         /\ r \notin exclSet'[t]
    ELSE /\ GrantedEntry(lockTable_', t, r, {"EXCLUSIVE"})
         /\ r \in exclSet'[t]
         /\ r \notin sharedSet'[t]

\* C5: a lock call that returns false leaves the transaction ABORTED; a lock call that
\* returns true, at once or after waiting, leaves the transaction with a granted item in
\* the queue of the RID and the RID in the lock set of the effective mode only.
C5_AcquisitionContract ==
    [][\A t \in TxnIds :
          /\ \A r \in Rids, mode \in Modes :
                /\ state'[t] = "ABORTED" \/ ~LockCall(t, r, mode, "false")
                /\ OwnsAfter(t, r, mode) \/ ~LockCall(t, r, mode, "true")
          /\ pc[t] = "blocked" =>
                (OwnsAfter(t, req[t].rid, req[t].mode) \/ ~Resume(t))]_vars

\* one call has returned false and another has returned true with an EXCLUSIVE lock
C5_Witness ==
    /\ ~strict_2PL_
    /\ \E t, u \in TxnIds, r \in Rids :
          /\ pc[t] = "idle" /\ state[t] = "ABORTED"
          /\ pc[u] = "idle" /\ state[u] = "GROWING"
          /\ r \in exclSet[u]
          /\ GrantedEntry(lockTable_, u, r, {"EXCLUSIVE"})

\* C6: a lock call by a transaction that is not GROWING returns false, sets ABORTED and
\* grants nothing; no item of a transaction that is not GROWING becomes granted; under
\* non-strict 2PL an Unlock by a GROWING transaction leaves it SHRINKING; a transaction
\* that loses a lock is not GROWING afterwards and never becomes GROWING again.
C6_TwoPhaseLocking ==
    [][\A t \in TxnIds :
          /\ state[t] = "GROWING" \/ state'[t] # "GROWING"
          /\ state[t] = "GROWING" \/ \A r \in Rids :
                /\ GrantedEntry(lockTable_', t, r, Modes) => GrantedEntry(lockTable_, t, r, Modes)
                /\ r \in (sharedSet'[t] \cup exclSet'[t]) => r \in Held(t)
                /\ \A mode \in Modes, ret \in Rets :
                      LockCall(t, r, mode, ret) =>
                          /\ ret = "false"
                          /\ state'[t] = "ABORTED"
                          /\ lockTable_' = lockTable_
                          /\ sharedSet' = sharedSet /\ exclSet' = exclSet
          /\ state'[t] # "GROWING" \/ \A r \in Rids :
                \/ lockTable_'[r] = lockTable_[r]
                \/ HasEntry(lockTable_, t, r) => HasEntry(lockTable_', t, r)
          /\ (strict_2PL_ \/ state[t] # "GROWING") \/ \A r \in Rids :
                /\ \A ret \in {"false", "blocked"} : ~UnlockCall(t, r, ret)
                /\ state'[t] = "SHRINKING" \/ ~UnlockCall(t, r, "true")]_vars

\* a transaction has unlocked one RID and still holds another, and a lock call of
\* another transaction has been refused
C6_Witness ==
    /\ ~strict_2PL_
    /\ \E t, u \in TxnIds :
          /\ state[t] = "SHRINKING" /\ pc[t] = "idle" /\ Held(t) # {}
          /\ state[u] = "ABORTED" /\ pc[u] = "idle"

\* C7: under strict 2PL an Unlock by a GROWING or SHRINKING transaction returns false,
\* sets ABORTED and changes neither the queues nor the lock sets; the item of a
\* transaction leaves a queue only when the transaction is COMMITTED or ABORTED, but for
\* the SHARED item a refused LockUpgrade has erased, which leaves it ABORTED.
C7_StrictUnlock ==
    [][strict_2PL_ =>
          \A t \in TxnIds, r \in Rids :
              /\ state[t] \in {"GROWING", "SHRINKING"} =>
                    /\ \A ret \in {"true", "blocked"} : ~UnlockCall(t, r, ret)
                    /\ \/ /\ state'[t] = "ABORTED"
                          /\ lockTable_' = lockTable_
                          /\ sharedSet' = sharedSet /\ exclSet' = exclSet
                       \/ ~UnlockCall(t, r, "false")
              /\ \/ lockTable_'[r] = lockTable_[r]
                 \/ (HasEntry(lockTable_, t, r) /\ ~HasEntry(lockTable_', t, r)) =>
                        /\ state'[t] \in {"COMMITTED", "ABORTED"}
                        /\ \/ state[t] \in {"COMMITTED", "ABORTED"}
                           \/ LockCall(t, r, "UPGRADING", "false")]_vars

\* under strict 2PL a transaction is ABORTED with its locks still in place, and another
\* one has committed and returned
C7_Witness ==
    /\ strict_2PL_
    /\ \E t, u \in TxnIds, r \in Rids :
          /\ state[t] = "ABORTED" /\ pc[t] = "idle"
          /\ r \in Held(t) /\ GrantedEntry(lockTable_, t, r, Modes)
          /\ state[u] = "COMMITTED" /\ pc[u] = "done"

C9_FlushBeforeRelease ==
    [][enable_logging =>
          \A t \in TxnIds, r \in Rids :
              (/\ pc[t] \in {"drain", "flush", "release"}
               /\ HasEntry(lockTable_, t, r)
               /\ ~HasEntry(lockTable_', t, r)) =>
                    (lastLog[t] = EndRecord(state[t]) /\ flushed[t])]_vars

\* C10: once Commit or Abort has returned, both lock sets of the transaction are empty
\* and no queue holds an item with its id.
C10_AllLocksReleased ==
    \A t \in TxnIds :
        pc[t] = "done" =>
            /\ sharedSet[t] = {}
            /\ exclSet[t] = {}
            /\ \A r \in Rids : ~HasEntry(lockTable_, t, r)

\* a Commit and an Abort have returned while a third transaction holds a lock
C10_Witness ==
    \E t, u, v \in TxnIds :
        /\ pc[t] = "done" /\ state[t] = "COMMITTED"
        /\ pc[u] = "done" /\ state[u] = "ABORTED"
        /\ pc[v] = "idle" /\ Held(v) # {}


\* the table as the records still in the write set say it was before them: their
\* inverses applied newest first
RECURSIVE Unwound(_, _)
Unwound(tbl, ws) ==
    IF ws = <<>> THEN tbl
    ELSE LET item == ws[Len(ws)]
         IN  Unwound([tbl EXCEPT ![item.rid_] = Inverse(item, @)], SubSeq(ws, 1, Len(ws) - 1))

\* C11: Abort rolls the write set back newest first, each record with its inverse
\* (DELETE by RollbackDelete, INSERT by ApplyDelete, UPDATE by UpdateTuple with the
\* before-image): when Abort has passed the loop the write set is empty and every
\* tuple, also one written more than once, is as it was before the transaction's first
\* write; while the loop runs, rolling back the records still in the write set, newest
\* first, leads to that table, and the tuples they do not name are already as they were.
C11_AbortRollsBack ==
    /\ undo_pc = "aborted" => write_set = <<>> /\ table_ = begin_table
    /\ undo_pc = "rollback" =>
         /\ Unwound(table_, write_set) = begin_table
         /\ \A r \in Rids : (\A i \in 1..Len(write_set) : write_set[i].rid_ # r)
                               => table_[r] = begin_table[r]

\* Abort has rolled back a transaction that inserted a tuple, updated it and marked it
\* deleted: three writes of one RID, one of each kind
C11_Witness ==
    /\ undo_pc = "aborted"
    /\ Len(undone) = 3
    /\ undone[1].wtype_ = "DELETE" /\ undone[2].wtype_ = "UPDATE" /\ undone[3].wtype_ = "INSERT"
    /\ undone[1].rid_ = undone[3].rid_ /\ undone[2].rid_ = undone[3].rid_
    /\ \E r \in Rids : r # undone[1].rid_ /\ begin_table[r] # FreeSlot

-----------------------------------------------------------------------------
(***************************************************************************)
(* Properties of the B+ tree used by one thread (specification SpecTreeSeq).*)
(***************************************************************************)
\* the tree has three levels or more
ThreeLevels ==
    /\ root_page_id_ # INVALID_PAGE_ID
    /\ pages[root_page_id_].type = "INTERNAL"
    /\ pages[ValueAt(pages[root_page_id_], 0)].type = "INTERNAL"

RECURSIVE LeavesUnder(_, _, _), LeavesOfChildren(_, _, _, _)
LeavesUnder(pg, p, fuel) ==
    IF p \notin PageIds \/ fuel = 0 THEN <<>>
    ELSE IF pg[p].type = "LEAF" THEN <<p>>
    ELSE IF pg[p].type = "INTERNAL" THEN LeavesOfChildren(pg, pg[p].arr, 1, fuel - 1)
    ELSE <<>>

LeavesOfChildren(pg, arr, i, fuel) ==
    IF i > Len(arr) THEN <<>>
    ELSE LeavesUnder(pg, arr[i].v, fuel) \o LeavesOfChildren(pg, arr, i + 1, fuel)

\* the leaves of the tree with root r
TreeLeaves(pg, r) == LeavesUnder(pg, r, NumKeys + 1)

\* the pairs (key, RID) the leaves of the tree hold
TreePairs(pg, r) ==
    LET leaves == TreeLeaves(pg, r)
    IN  {<<pg[leaves[i]].arr[j].k, pg[leaves[i]].arr[j].v>> :
            <<i, j>> \in {x \in (1..Len(leaves)) \X (1..(MaxPages)) :
                              x[2] <= Len(pg[leaves[x[1]]].arr)}}

TreeKeys(pg, r) == {kv[1] : kv \in TreePairs(pg, r)}

\* worker t holds no page latch and not the tree-root latch
HoldsNoLatch(t) ==
    /\ \A p \in PageIds : wlatch[p] # t /\ t \notin rlatch[p]
    /\ mutex_w # t /\ t \notin mutex_r

AllIdle == \A t \in Workers : wk[t].pc = "idle"

\* C14: after every completed Insert or Remove, every non-root node of the tree has
\* min_size <= size <= max_size, leaf and internal nodes each with their own min_size.
C14_SizeInvariant ==
    AllIdle =>
        \A p \in PageIds :
            (pages[p].type # "FREE" /\ ~IsRootPage(pages[p])) =>
                /\ GetMinSize(pages[p]) <= GetSize(pages[p])
                /\ GetSize(pages[p]) <= GetMaxSize(pages[p])

\* the leaf the descent by the first child pointers ends at (FindLeafPage with leftMost,
\* part_002:486-500)
RECURSIVE LeftMostLeaf(_, _, _)
LeftMostLeaf(pg, p, fuel) ==
    IF p \notin PageIds \/ fuel = 0 THEN INVALID_PAGE_ID
    ELSE IF pg[p].type = "INTERNAL" /\ pg[p].arr # <<>>
         THEN LeftMostLeaf(pg, ValueAt(pg[p], 0), fuel - 1)
         ELSE p

\* the pages next_page_id leads through from page p, up to INVALID_PAGE_ID (the walk of
\* IndexIterator::operator++, index_iterator.h:32-52)
RECURSIVE Chain(_, _, _)
Chain(pg, p, fuel) ==
    IF p \notin PageIds \/ fuel = 0 THEN <<>>
    ELSE <<p>> \o Chain(pg, pg[p].next, fuel - 1)

\* the keys of the pages of a sequence of pages, in the order of the sequence
RECURSIVE KeysAlong(_, _)
KeysAlong(pg, ps) ==
    IF ps = <<>> THEN <<>>
    ELSE [i \in 1..Len(pg[Head(ps)].arr) |-> pg[Head(ps)].arr[i].k] \o KeysAlong(pg, Tail(ps))

StrictlyAscending(ks) == \A i \in 1..(Len(ks) - 1) : ks[i] < ks[i + 1]

RECURSIVE LeafDepths(_, _, _, _)
LeafDepths(pg, p, d, fuel) ==
    IF p \notin PageIds \/ fuel = 0 THEN {-1}
    ELSE IF pg[p].type = "LEAF" THEN {d}
    ELSE IF pg[p].type = "INTERNAL"
         THEN UNION {LeafDepths(pg, pg[p].arr[i].v, d + 1, fuel - 1) : i \in 1..Len(pg[p].arr)}
         ELSE {-1}

\* every call has done its work on the pages of the tree: it has returned, or it is
\* at its last FreePagesInTransaction
Settled == \A t \in Workers : wk[t].pc \in {"idle", "free", "return"}

-----------------------------------------------------------------------------
(***************************************************************************)
(* Properties of the B+ tree used by several threads (specification         *)
(* SpecTreeConc).                                                           *)
(***************************************************************************)
\* C18: whenever a step of an Insert or a Remove of thread t changes a page of the tree
\* (its entries, its size, its parent_page_id or its next_page_id), thread t holds the
\* page's latch in write mode: it held it before the step, or the step took it (a new
\* page, a sibling).  A page given back to the buffer pool is not a change of the tree.
C18_LatchedMutation ==
    [][\A t \in Workers :
        (wk'[t] # wk[t] /\ wk[t].op \in {"INSERT", "DELETE"}) =>
            \A p \in PageIds :
                (pages'[p] # pages[p] /\ pages'[p].type # "FREE") =>
                    (wlatch[p] = t \/ wlatch'[p] = t)
      ]_vars

\* C19: every step that assigns root_page_id_ (StartNewTree, the new root of
\* InsertIntoParent, both cases of AdjustRoot) is a step of a thread that holds the
\* tree-root latch in write mode when it takes the step.
C19_RootAssignedUnderLatch ==
    [][root_page_id_' # root_page_id_ =>
          \E t \in Workers : wk'[t] # wk[t] /\ mutex_w = t
      ]_vars

\* thread t is inside a call, or holds an iterator that is not at its end
Unfinished(t) == wk[t].pc # "idle"

\* thread t waits for the tree-root latch or for a page latch that it cannot get
Blocked(t) ==
    LET w == wk[t]
    IN  \/ w.pc = "new_tree" /\ ~CanLockRoot(Ctx(t), TRUE)
        \/ w.pc = "lock_root" /\ ~CanLockRoot(Ctx(t), IsExclusive(w.op))
        \/ w.pc = "crab" /\ ~CanLatch(Ctx(t), IsExclusive(w.op), w.next)
        \/ /\ w.pc = "cor"
           /\ ~IsRootPage(pages[w.node])
           /\ SiblingInRange(pages, w.node)
           /\ ~CanLatch(Ctx(t), TRUE, SiblingOf(pages, w.node))
        \/ w.pc = "iter_latch" /\ ~CanLatch(Ctx(t), FALSE, w.next)

\* C20: in no reachable state is every unfinished thread blocked on a page latch or on
\* the tree-root latch, the threads running GetValue, Insert, Remove and iterator
\* advances on one tree.
C20_NoLatchDeadlock ==
    (\E t \in Workers : Unfinished(t)) => \E t \in Workers : Unfinished(t) /\ ~Blocked(t)

-----------------------------------------------------------------------------
(***************************************************************************)
(* Properties of the scans (specification SpecTreeScan).                    *)
(***************************************************************************)
\* the keys the reference map holds that are not below k
KeysFrom(k) == {j \in Keys : ref_map[j] # NoRid /\ j >= k}

\* no thread other than t has begun a call since the threads were started
ScansAlone(t) == \A u \in Workers \ {t} : calls_left[u] = 1

\* C21: when Begin(key) or Begin() returns its iterator (Begin() asks for every key) and
\* no other thread has called the tree meanwhile, the iterator is at its end if the tree
\* holds no key >= key, and otherwise stands on a pair of its leaf whose key is the
\* smallest stored key >= key; on an empty tree the iterator is at its end.
C21_BeginPosition ==
    [][\A t \in Workers :
        (/\ wk[t].op = "ITER"
         /\ wk[t].pc \in {"leaf", "lock_root"}
         /\ wk'[t].pc \notin {"leaf", "lock_root", "crab"}
         /\ ScansAlone(t)) =>
            LET from == KeysFrom(IF wk[t].leftMost THEN 1 ELSE wk[t].key)
                w == wk'[t]
            IN  IF from = {} THEN w.pc = "idle"
                ELSE /\ w.pc = "iter"
                     /\ w.index < GetSize(pages'[w.node])
                     /\ \A j \in from : KeyAt(pages'[w.node], w.index) <= j
      ]_vars

\* C22: the keys one iterator dereferences to, from its Begin to its end, are strictly
\* ascending, whatever another thread's Insert or Remove does between its steps: the
\* key of the pair the iterator stands on is greater than the key it dereferenced to
\* last.
C22_AscendingScan ==
    \A t \in Workers :
        (/\ wk[t].pc = "iter"
         /\ wk[t].last # 0
         /\ wk[t].index < GetSize(pages[wk[t].node])) =>
            KeyAt(pages[wk[t].node], wk[t].index) > wk[t].last

-----------------------------------------------------------------------------
(***************************************************************************)
(* Scenario S1 (specification SpecTreeS1).                                  *)
(***************************************************************************)
\* the inserts of the scenario have returned
S1Done == AllIdle /\ \A k \in 1..Len(S1Keys) : ref_map[k] # NoRid

\* the key of the scenario with rank r
S1Key(r) == CHOOSE x \in {S1Keys[i] : i \in 1..Len(S1Keys)} : S1Rank(x) = r

\* the keys of the scenario that page p holds, slot by slot (in an internal page the
\* key of slot 0 is unused and left out)
S1KeysOf(p) ==
    LET first == IF pages[p].type = "INTERNAL" THEN 1 ELSE 0
    IN  [i \in 1..(Len(pages[p].arr) - first) |-> S1Key(pages[p].arr[i + first].k)]

\* the keys of the root's separators, of the leaves from left to right, and of the
\* leaf chain from the leftmost leaf
S1Shape ==
    LET leaves == TreeLeaves(pages, root_page_id_)
        along == KeysAlong(pages, Chain(pages, LeftMostLeaf(pages, root_page_id_, MaxPages),
                                        MaxPages + 1))
    IN  [root |-> IF pages[root_page_id_].type = "INTERNAL" THEN S1KeysOf(root_page_id_)
                  ELSE <<>>,
         leaves |-> [i \in 1..Len(leaves) |-> S1KeysOf(leaves[i])],
         chain |-> [i \in 1..Len(along) |-> S1Key(along[i])]]

\* C23 as stated: after the inserts 5, 9, 1, 3, 7, 4 with max_size 3 the root is an
\* internal page with separators [4, 7] over the leaves [1,3], [4,5], [7,9], and the
\* leaf chain enumerates 1, 3, 4, 5, 7, 9.
C23_ScenarioS1 ==
    S1Done =>
        /\ S1Shape.root = <<4, 7>>
        /\ S1Shape.leaves = << <<1, 3>>, <<4, 5>>, <<7, 9>> >>
        /\ S1Shape.chain = <<1, 3, 4, 5, 7, 9>>

\* C23 amended: after the inserts 5, 9, 1, 3, 7, 4 with max_size 3 the root is an
\* internal page with the one separator [5] over the leaves [1,3,4] and [5,7,9], and
\* the leaf chain enumerates 1, 3, 4, 5, 7, 9 (a leaf is split when its size exceeds
\* max_size, which happens once, at the insert of 3).
C23_ScenarioS1Code ==
    S1Done =>
        /\ S1Shape.root = <<5>>
        /\ S1Shape.leaves = << <<1, 3, 4>>, <<5, 7, 9>> >>
        /\ S1Shape.chain = <<1, 3, 4, 5, 7, 9>>

\* the six inserts have returned and the tree has an internal root
C23_Witness == S1Done /\ pages[root_page_id_].type = "INTERNAL"

-----------------------------------------------------------------------------
(***************************************************************************)
(* The header page (specification SpecTreeSeq).                             *)
(***************************************************************************)
\* C24: after every Insert or Remove that has changed root_page_id_ (the first insert
\* into an empty tree, a split of the root, a demotion of the root, the tree becoming
\* empty, the first insert into a tree that a Remove emptied), the header page's record
\* for the index name is the current root_page_id_.  Before the first insert the page
\* has no record for the name.
C24_HeaderTracksRoot ==
    (AllIdle /\ header_record # NoRecord) => header_record = root_page_id_

-----------------------------------------------------------------------------
(***************************************************************************)
(* Properties of recovery (specification SpecRec).                         *)
(***************************************************************************)
\* the index in the log file of the record with this LSN
RecordOf(lsn) == CHOOSE i \in 1..Len(log_file) : log_file[i].lsn_ = lsn

\* the size of the log file
LogSize == OffsetOf(log_file, Len(log_file) + 1)

\* C27: after Redo, lsn_mapping_ gives for every record that was deserialized the
\* offset in the log file at which the record starts, also for the records read after
\* the buffer was refilled behind the kept tail of a record.
C27_LsnMappingOffsets ==
    rc.pc = "redone" =>
        \A lsn \in DOMAIN lsn_mapping_ : lsn_mapping_[lsn] = OffsetOf(log_file, RecordOf(lsn))

\* the last record a transaction has in the log
LastLsnOf(t) ==
    LET mine == {i \in 1..Len(log_file) : log_file[i].txn_id_ = t}
    IN  log_file[CHOOSE i \in mine : \A j \in mine : j <= i].lsn_

\* C28: after Redo, active_txn_ holds exactly the transactions with a record in the
\* log and no COMMIT or ABORT record, each with the LSN of its last record.
C28_ActiveTxnAfterRedo ==
    rc.pc = "redone" =>
        /\ DOMAIN active_txn_ =
              {t \in 1..MaxLogTxn :
                  /\ \E i \in 1..Len(log_file) : log_file[i].txn_id_ = t
                  /\ ~\E i \in 1..Len(log_file) :
                        log_file[i].txn_id_ = t /\ log_file[i].type \in {"COMMIT", "ABORT"}}
        /\ \A t \in DOMAIN active_txn_ : active_txn_[t] = LastLsnOf(t)

\* Redo is over a log longer than the buffer, with a finished transaction and one
\* that is not
C28_Witness ==
    /\ rc.pc = "redone"
    /\ LogSize > LOG_BUFFER_SIZE
    /\ DOMAIN active_txn_ # {}
    /\ \E i \in 1..Len(log_file) : log_file[i].type \in {"COMMIT", "ABORT"}

\* the records Redo has been through in the buffer it holds and in those before
Passed(i) == OffsetOf(log_file, i) < rc.start + rc.bufferOffset

\* the record at the place Redo deserializes next
AtCursor(i) == OffsetOf(log_file, i) = rc.start + rc.bufferOffset

\* C29: a step of Redo over a tuple-level record applies the record if and only if its
\* lsn is greater than the page's LSN, and then the page's LSN is the record's lsn; if
\* not the page is left as it is.  The page's LSN never goes down during Redo.
C29_RedoLsnGuard ==
    [][(rc.pc = "redo_rec" /\ rc'.pc = "redo_rec") =>
          \A i \in 1..Len(log_file) :
              AtCursor(i) =>
                  LET log == log_file[i]
                  IN  /\ page_lsn' >= page_lsn
                      /\ log.rid = 0 => (tpage' = tpage /\ page_lsn' = page_lsn)
                      /\ (log.rid # 0 /\ log.lsn_ > page_lsn) =>
                            /\ page_lsn' = log.lsn_
                            /\ tpage' = Replay(log_file, Len(log_file), log.lsn_, {})
                      /\ (log.rid # 0 /\ log.lsn_ <= page_lsn) =>
                            (tpage' = tpage /\ page_lsn' = page_lsn)]_vars

\* Redo has left one tuple-level record alone, which the page on disk had, and has
\* applied a later one
C29_Witness ==
    /\ rc.pc = "redo_rec"
    /\ rc.run = 1
    /\ \E i, j \in 1..Len(log_file) :
          /\ Passed(i) /\ Passed(j)
          /\ log_file[i].rid # 0 /\ log_file[j].rid # 0
          /\ log_file[i].lsn_ <= rc.disk_lsn
          /\ log_file[j].lsn_ > rc.disk_lsn
          /\ page_lsn = log_file[j].lsn_

\* the table page with all the operations of the finished transactions and none of
\* the others'
Recovered == Replay(log_file, Len(log_file), Len(log_file), Unfinished_(log_file))

\* C25: Redo followed by Undo ends without a failed assertion, with every tuple as the
\* finished transactions left it and no operation of an unfinished transaction, and
\* with active_txn_ and lsn_mapping_ empty.
C25_RecoveryAtomicity ==
    rc.run = 1 =>
        /\ rc.pc # "crashed"
        /\ rc.pc = "done" =>
              (tpage = Recovered /\ DOMAIN active_txn_ = {} /\ DOMAIN lsn_mapping_ = {})

\* C26: a second run of Redo and Undo over the same log and the pages the first run
\* left ends without a failed assertion and leaves the tuples as the first run did.
C26_RecoveryIdempotence ==
    rc.run = 2 =>
        /\ rc.pc # "crashed"
        /\ rc.pc = "done" => tpage = rc.saved

-----------------------------------------------------------------------------
(***************************************************************************)
(* The grant rule of Unlock (specification SpecLM).                        *)
(***************************************************************************)
\* the step is an Unlock that removes the item of t from the queue of r and leaves
\* the items of locks1, the first of which waits
UnlockLeaves(t, r, locks1) ==
    /\ Unlock(t, r, "true")
    /\ locks1 # << >>
    /\ ~locks1[1].granted

\* C30: when Unlock removes an item and leaves a queue whose head waits, it grants the
\* leading SHARED waiters and stops at the first EXCLUSIVE or UPGRADING waiter, which it
\* grants only when that waiter is the head; an UPGRADING head becomes EXCLUSIVE and
\* hasUpgrading_ is cleared.
C30_UnlockGrantRule ==
    [][\A t \in TxnIds, r \in Rids :
          LET locks1 == EraseAt(lockTable_[r].locks, FindTid(lockTable_[r].locks, t))
              after == lockTable_'[r]
          IN  UnlockLeaves(t, r, locks1) =>
                  /\ \A i \in 1..Len(locks1) :
                        /\ after.locks[i].granted =
                              \/ locks1[i].granted
                              \/ i = 1
                              \/ \A j \in 1..i : locks1[j].mode = "SHARED"
                        /\ after.locks[i].mode =
                              IF i = 1 /\ locks1[i].mode = "UPGRADING" THEN "EXCLUSIVE"
                              ELSE locks1[i].mode
                  /\ after.hasUpgrading =
                        (lockTable_[r].hasUpgrading /\ locks1[1].mode # "UPGRADING")]_vars

-----------------------------------------------------------------------------
(***************************************************************************)
(* Pending upgrades (specification SpecLM).                                *)
(***************************************************************************)
\* the items of the queue of r that ask for an upgrade and wait
PendingUpgrades(r) ==
    {i \in 1..Len(lockTable_[r].locks) :
        lockTable_[r].locks[i].mode = "UPGRADING" /\ ~lockTable_[r].locks[i].granted}

\* C32: every queue holds at most one waiting UPGRADING item, hasUpgrading_ is true
\* exactly when it holds one, and a LockUpgrade on a RID whose queue holds one returns
\* false and leaves the caller ABORTED.
C32_SinglePendingUpgrade ==
    /\ [](\A r \in Rids :
            /\ Cardinality(PendingUpgrades(r)) <= 1
            /\ lockTable_[r].hasUpgrading = (PendingUpgrades(r) # {}))
    /\ [][\A t \in TxnIds, r \in Rids, ret \in Rets :
            (PendingUpgrades(r) # {} /\ LockCall(t, r, "UPGRADING", ret)) =>
                (ret = "false" /\ state'[t] = "ABORTED" /\ PendingUpgrades(r)' = PendingUpgrades(r))]_vars

\* an upgrade waits in the queue of r, and a transaction that holds a SHARED lock in the
\* same queue is ABORTED
C32_Witness ==
    \E r \in Rids : \E i \in 1..Len(lockTable_[r].locks) :
        /\ PendingUpgrades(r) # {}
        /\ lockTable_[r].locks[i].mode = "SHARED"
        /\ lockTable_[r].locks[i].granted
        /\ state[lockTable_[r].locks[i].tid] = "ABORTED"

-----------------------------------------------------------------------------
(***************************************************************************)
(* Terminal states (specification SpecLate).                               *)
(***************************************************************************)
\* C39: a COMMITTED transaction stays COMMITTED and an ABORTED one never becomes
\* COMMITTED, whatever calls are made on it afterwards.
C39_TerminalStates ==
    [][\A t \in TxnIds :
          /\ state[t] = "COMMITTED" => state'[t] = "COMMITTED"
          /\ state[t] = "ABORTED" => state'[t] # "COMMITTED"]_vars

-----------------------------------------------------------------------------
(***************************************************************************)
(* Liveness of waiting lock requests (specification SpecLive).             *)
(***************************************************************************)
\* C31: when every transaction that is not waiting commits or aborts in the end, a
\* request that waits in the queue of a RID is granted in the end and its call
\* returns, also when a holder ahead of it called LockUpgrade and was refused.
C31_LockWaitLiveness ==
    \A t \in TxnIds : (pc[t] = "blocked") ~> (pc[t] = "idle" /\ LiveRid \in Held(t))

-----------------------------------------------------------------------------
(***************************************************************************)
(* Writer preference and wake-ups of RWMutex (SpecRW, SpecRWLive).         *)
(***************************************************************************)
\* C33: while writer_entered_ is set, from the WLock that set it to that writer's
\* WUnlock, no RLock call returns.
C33_WriterPreference ==
    [][writer_entered_ =>
          \A t \in Threads : rw_pc'[t] = "reading" => rw_pc[t] = "reading"]_vars

\* a writer has set writer_entered_ and waits for a reader to leave, and a reader that
\* came after it waits
C33_Witness ==
    /\ writer_entered_
    /\ \E w, r, a \in Threads :
          rw_pc[w] = "W_wait2" /\ rw_pc[r] = "reading" /\ rw_pc[a] = "R_wait"

\* the threads blocked in RLock or WLock
BlockedRW == OnReaderCv \cup OnWriterCv

\* C34: the latch is never free while a thread is blocked on reader_ or writer_ without
\* a notification pending, and when threads are blocked and the holders unlock, one of
\* the blocked threads acquires the latch in the end.
C34_NoLostWakeup ==
    /\ []((reader_count_ = 0 /\ ~writer_entered_) => BlockedRW \subseteq notified)
    /\ \A S \in (SUBSET Threads) \ {{}} :
          (BlockedRW = S) ~> (\E t \in S : rw_pc[t] \in {"reading", "writing"})

\* a thread that is outside the latch stays outside: no new call of RLock or WLock
NoNewCalls == \A t \in Threads : rw_pc[t] = "idle" => [](rw_pc[t] = "idle")

\* C34 (amended): the latch is never free while a thread is blocked on reader_ or
\* writer_ without a notification pending, and when threads are blocked, the holders
\* unlock and no thread makes a new RLock or WLock call from then on, one of the
\* blocked threads acquires the latch in the end.
C34_NoLostWakeupQuiet ==
    /\ []((reader_count_ = 0 /\ ~writer_entered_) => BlockedRW \subseteq notified)
    /\ \A S \in (SUBSET Threads) \ {{}} :
          []((BlockedRW = S /\ []NoNewCalls) =>
                <>(\E t \in S : rw_pc[t] \in {"reading", "writing"}))

\* the latch is free again and two threads that were blocked have been notified
C34_Witness ==
    /\ reader_count_ = 0
    /\ ~writer_entered_
    /\ Cardinality(BlockedRW) = 2
    /\ BlockedRW \subseteq notified

-----------------------------------------------------------------------------
(***************************************************************************)
(* The latches of a descent and of a call that returns (SpecTreeSeq,       *)
(* SpecTreeConc).                                                          *)
(***************************************************************************)
\* the pages thread t holds latched in write mode
WLatched(t) == {q \in PageIds : wlatch[q] = t}

\* the child is safe for the operation: an insert leaves it under its maximum, a
\* delete leaves it over its minimum
SafeFor(page, op) ==
    IF op = "INSERT" THEN GetSize(page) < GetMaxSize(page)
    ELSE GetSize(page) > GetMinSize(page)

\* C35: in the descent of an Insert or a Remove, right after a child is latched, the
\* thread holds the child's latch alone and not the tree-root latch when the child is
\* safe; when it is not, the thread holds what it held before, and the child's latch.
C35_CrabbingRelease ==
    [][\A t \in Workers :
          (/\ wk[t].pc = "crab"
           /\ IsExclusive(wk[t].op)
           /\ wk[t].previous # INVALID_PAGE_ID
           /\ wk'[t] # wk[t]) =>
              IF SafeFor(pages[wk[t].next], wk[t].op)
              THEN /\ WLatched(t)' = {wk[t].next}
                   /\ mutex_w' # t
              ELSE /\ WLatched(t)' = WLatched(t) \cup {wk[t].next}
                   /\ mutex_w' = mutex_w]_vars

\* a Remove has come down a tree of three levels to a safe leaf: it holds the latch
\* of the leaf alone and not the tree-root latch
C35_Witness ==
    \E t \in Workers :
        /\ wk[t].pc = "leaf"
        /\ wk[t].op = "DELETE"
        /\ ThreeLevels
        /\ WLatched(t) = {wk[t].node}
        /\ mutex_w # t

\* thread t holds no page latch and not the tree-root latch, and its transaction's
\* latched-page set and deleted-page set are empty
HoldsNothing(t) ==
    /\ WLatched(t) = {}
    /\ \A q \in PageIds : t \notin rlatch[q]
    /\ mutex_w # t
    /\ t \notin mutex_r
    /\ wk[t].ps = <<>>
    /\ wk[t].ds = {}

\* a step in which a GetValue, an Insert or a Remove of thread t returns
CallReturns(t) ==
    /\ wk[t].op \in {"READ", "INSERT", "DELETE"}
    /\ wk'[t].pc = "idle"

\* C36: when GetValue, Insert or Remove returns, the thread holds no page latch and
\* not the tree-root latch, the latched-page set and the deleted-page set of its
\* transaction are empty, and every page that was in the deleted-page set is deleted
\* from the buffer pool.
C36_EndOfOperationRelease ==
    [][\A t \in Workers :
          CallReturns(t) => /\ HoldsNothing(t)'
                            /\ \A q \in wk[t].ds : pages'[q].type = "FREE"]_vars

\* a step in which thread t, in an Insert or a Remove, gets nullptr from FindLeafPage
\* and calls a member of the null leaf
NullLeafStep(t) ==
    /\ wk[t].pc = "lock_root"
    /\ IsExclusive(wk[t].op)
    /\ wk'[t].pc = "crashed"

\* a step in which the Insert of thread t returns from StartNewTree
NewRootStep(t) ==
    /\ wk[t].pc = "new_tree_locked"
    /\ wk'[t].pc = "idle"

\* C37: in every interleaving of Insert and Remove calls on a tree that is empty or is
\* emptied by a Remove, no call dereferences a null leaf, a root is made for an empty
\* tree only, and once the calls have returned every key that an Insert returned true
\* for and no Remove took out is in the tree.
C37_EmptyTreeRace ==
    /\ [][\A t \in Workers : ~NullLeafStep(t)]_vars
    /\ [][\A t \in Workers : NewRootStep(t) => root_page_id_ = INVALID_PAGE_ID]_vars
    /\ [](AllIdle => \A k \in Keys :
              ref_map[k] # NoRid => k \in TreeKeys(pages, root_page_id_))

-----------------------------------------------------------------------------
(***************************************************************************)
(* The walk of Undo along prev_lsn (specification SpecRec).                *)
(***************************************************************************)
\* the records that start at the offset at which Undo reads the record of an lsn
ReadAt(lsn) ==
    {i \in 1..Len(log_file) :
        lsn \in DOMAIN lsn_mapping_ /\ OffsetOf(log_file, i) = lsn_mapping_[lsn]}

\* C38: for every transaction Redo left in active_txn_, Undo starts at the
\* transaction's last record and each of its steps reads the record of the lsn it is
\* at, a record of that transaction that is no COMMIT and no ABORT, and goes on to the
\* record's prev_lsn, a smaller lsn of the same transaction; the walk ends behind the
\* BEGIN record and nowhere else.
C38_UndoChainWalk ==
    [][(rc.pc \in {"redone", "undo"} /\ rc' # rc) =>
          IF rc.lsn = INVALID_LSN
          THEN \A t \in rc.todo \ rc'.todo :
                  /\ rc'.lsn = LastLsnOf(t)
                  /\ rc'.lsn # INVALID_LSN
          ELSE LET log == log_file[RecordOf(rc.lsn)]
               IN  /\ ReadAt(rc.lsn) = {RecordOf(rc.lsn)}
                   /\ log.type \notin {"COMMIT", "ABORT"}
                   /\ rc'.pc # "crashed" =>
                         /\ rc'.lsn = log.prev_lsn_
                         /\ rc'.lsn < rc.lsn
                         /\ (rc'.lsn = INVALID_LSN) <=> (log.type = "BEGIN")
                         /\ rc'.lsn # INVALID_LSN =>
                               log_file[RecordOf(rc'.lsn)].txn_id_ = log.txn_id_
      ]_vars

-----------------------------------------------------------------------------
(***************************************************************************)
(* The pins and latches of an iterator (specification SpecTreeScan).       *)
(***************************************************************************)
\* the page a thread with an iterator, or on its way to the first leaf in Begin, has
\* pinned: the page it came down to, the leaf of the iterator, or the next leaf that
\* operator++ has fetched
IterPinned(w) ==
    IF w.op # "ITER" THEN {}
    ELSE IF w.pc = "crab" THEN {w.previous} \ {INVALID_PAGE_ID}
    ELSE IF w.pc \in {"leaf", "iter", "crashed"} THEN {w.node}
    ELSE IF w.pc = "iter_latch" THEN {w.next}
    ELSE {}

\* the page such a thread holds the read latch of
IterLatched(w) == IF w.pc = "iter_latch" THEN {} ELSE IterPinned(w)

\* 1 for a member of the set, 0 for any other value
Ind(p, set) == IF p \in set THEN 1 ELSE 0

\* C40: every step of a thread in Begin or with an iterator changes the pin count of
\* a page by one up when it arrives at the page, by one down (net) when it leaves it,
\* and not otherwise, and the thread holds the read latch of the leaf it is at and
\* of no other page; when the iterator is at its end the thread has no pin and no
\* read latch left.
C40_IteratorBalance ==
    /\ [][\A t \in Workers :
            ((wk[t].op = "ITER" \/ wk'[t].op = "ITER") /\ wk'[t] # wk[t]) =>
                \A p \in PageIds :
                    pin_count_'[p] - pin_count_[p]
                        = Ind(p, IterPinned(wk'[t])) - Ind(p, IterPinned(wk[t]))]_vars
    /\ [][\A t \in Workers :
            (wk[t].op = "ITER" /\ wk'[t].pc = "idle") => HoldsNoLatch(t)']_vars
    /\ [](\A t \in Workers :
            wk[t].op = "ITER" =>
                /\ \A p \in PageIds : (t \in rlatch[p]) <=> (p \in IterLatched(wk[t]))
                /\ \A p \in PageIds : wlatch[p] # t
                /\ wk[t].pc \in {"iter", "iter_latch"} => t \notin mutex_r)

\* an iterator made by Begin() is at the last pair of the last leaf of a tree with more
\* than one leaf, having gone from leaf to leaf: its next advance takes it to its end
C40_Witness ==
    \E t \in Workers :
        /\ wk[t].pc = "iter"
        /\ wk[t].leftMost
        /\ wk[t].last # 0
        /\ pages[wk[t].node].next = INVALID_PAGE_ID
        /\ wk[t].index + 1 = GetSize(pages[wk[t].node])
        /\ Len(TreeLeaves(pages, root_page_id_)) > 1
        /\ pin_count_[wk[t].node] = 1
        /\ rlatch[wk[t].node] = {t}

=============================================================================
